---------------------------- MODULE Spec2Model ----------------------------
(***************************************************************************)
(* Model of the core logic of the resale listing builder (src/app.py):     *)
(* the title-variant generator, the listing payload builder and the        *)
(* fee / profit / flip-score arithmetic, followed by the Streamlit script  *)
(* itself: a browser session whose every event reruns the script over      *)
(* st.session_state and the data files (stats.json, config.json,           *)
(* events.jsonl, waitlist.csv), the read-modify-write of stats.json by     *)
(* two sessions at once, and the waitlist file.                            *)
(*                                                                         *)
(* Text is modelled by TLA+ strings, character by character (Len, SubSeq   *)
(* and \o act on strings).  Python floats are modelled by exact            *)
(* fixed-point integers:                                                   *)
(*   money            micro-dollars   (Dollar = 1000000, Cent = 10000)     *)
(*   fee percentages  basis points    (13.25 % = 1325)                     *)
(*   margin_pct       hundredths of a percent, floored  (38.21 % = 3821)   *)
(*   scores           hundredths of a point             (5.0 = 500)        *)
(* Sale prices are whole cents, so price * pct / 100 is exact.  Flooring   *)
(* the margin keeps every comparison with a whole-percent threshold and    *)
(* every rounding to one decimal exact.                                    *)
(***************************************************************************)
EXTENDS Integers, Sequences, FiniteSets, TLC

VARIABLES op, input, output, session_state, files

vars == <<op, input, output, session_state, files>>

\* output before the invoked function has returned, and once it returned v
NoOutput == [returned |-> FALSE]

Return(v) == [returned |-> TRUE, value |-> v]

\* no browser session and no data file: a core function called on its own
\* reads and writes neither
NoSession == session_state = <<>> /\ files = <<>>

-----------------------------------------------------------------------------
(* Characters and the Python string primitives the source uses *)

\* F applied to the value of x: x is evaluated once, as the assignment to a
\* Python local evaluates its right-hand side once
Bind(x, F(_)) == CHOOSE r \in {F(v) : v \in {x}} : TRUE

Ch(s, i) == SubSeq(s, i, i)

Rest(s, i) == SubSeq(s, i, Len(s))

UPPER == "ABCDEFGHIJKLMNOPQRSTUVWXYZ"

LOWER == "abcdefghijklmnopqrstuvwxyz"

DIGITS == "0123456789"

UpperSet == {Ch(UPPER, i) : i \in 1..26}

LowerSet == {Ch(LOWER, i) : i \in 1..26}

DigitSet == {Ch(DIGITS, i) : i \in 1..10}

ToLower == [c \in UpperSet |-> Ch(LOWER, CHOOSE i \in 1..26 : Ch(UPPER, i) = c)]

\* regex \s and the characters str.strip() removes
IsSpace(c) == c \in {" ", "\t", "\n", "\r"}

\* regex \w
WordSet == UpperSet \cup LowerSet \cup DigitSet \cup {"_"}

IsWordCh(c) == c \in WordSet

IsDigit(c) == c \in DigitSet

\* the concatenation of pieces[lo..hi], a sequence of strings
RECURSIVE Concat(_, _, _)
Concat(pieces, lo, hi) ==
    IF lo > hi THEN ""
    ELSE IF lo = hi THEN pieces[lo]
    ELSE Concat(pieces, lo, (lo + hi) \div 2) \o Concat(pieces, (lo + hi) \div 2 + 1, hi)

\* the characters of s, each replaced by its piece
Flat(pieces0) == Bind(pieces0, LAMBDA pieces : Concat(pieces, 1, Len(pieces)))

Min(a, b) == IF a < b THEN a ELSE b

\* str.lower()
lower(s0) ==
    Bind(s0, LAMBDA s :
        Flat([i \in 1..Len(s) |->
                IF Ch(s, i) \in UpperSet THEN ToLower[Ch(s, i)] ELSE Ch(s, i)]))

\* the number of whitespace characters at the head of s
LeadingSpaces(s0) ==
    Bind(s0, LAMBDA s :
        IF \A i \in 1..Len(s) : IsSpace(Ch(s, i)) THEN Len(s)
        ELSE (CHOOSE i \in 1..Len(s) :
                ~IsSpace(Ch(s, i)) /\ \A j \in 1..(i - 1) : IsSpace(Ch(s, j))) - 1)

\* the number of whitespace characters at the tail of s
TrailingSpaces(s0) ==
    Bind(s0, LAMBDA s :
        IF \A i \in 1..Len(s) : IsSpace(Ch(s, i)) THEN Len(s)
        ELSE Len(s) - (CHOOSE i \in 1..Len(s) :
                ~IsSpace(Ch(s, i)) /\ \A j \in (i + 1)..Len(s) : IsSpace(Ch(s, j))))

lstrip(s0) == Bind(s0, LAMBDA s : Rest(s, LeadingSpaces(s) + 1))

\* str.rstrip()
rstrip(s0) == Bind(s0, LAMBDA s : SubSeq(s, 1, Len(s) - TrailingSpaces(s)))

\* str.strip()
strip(s) == rstrip(lstrip(s))

\* re.sub(r"\s+", " ", s)
collapse_ws(s0) ==
    Bind(s0, LAMBDA s :
        Flat([i \in 1..Len(s) |->
                IF ~IsSpace(Ch(s, i)) THEN Ch(s, i)
                ELSE IF i > 1 /\ IsSpace(Ch(s, i - 1)) THEN ""
                ELSE " "]))

\* s[:n]
Take(s0, n) == Bind(s0, LAMBDA s : SubSeq(s, 1, IF n < Len(s) THEN n ELSE Len(s)))

\* " ".join(parts)
join(parts0) ==
    Bind(parts0, LAMBDA parts :
        Flat([i \in 1..Len(parts) |-> IF i = 1 THEN parts[i] ELSE " " \o parts[i]]))

\* str.splitlines(): the lines of s, without their line breaks
IsLineBreak(c) == c \in {"\n", "\r"}

\* the position of the first line break of s, Len(s) + 1 when it has none
line_end(s0) ==
    Bind(s0, LAMBDA s :
        IF \A i \in 1..Len(s) : ~IsLineBreak(Ch(s, i)) THEN Len(s) + 1
        ELSE CHOOSE i \in 1..Len(s) :
                IsLineBreak(Ch(s, i)) /\ \A j \in 1..(i - 1) : ~IsLineBreak(Ch(s, j)))

RECURSIVE splitlines(_)
splitlines(s0) ==
    Bind(s0, LAMBDA s :
        IF s = "" THEN <<>>
        ELSE Bind(line_end(s), LAMBDA e :
            IF e > Len(s) THEN <<s>>
            ELSE <<SubSeq(s, 1, e - 1)>>
                 \o splitlines(Rest(s, e + (IF e < Len(s) /\ Ch(s, e) = "\r"
                                                /\ Ch(s, e + 1) = "\n" THEN 2 ELSE 1)))))

\* [f(x) for x in seq if keep(x)], the list comprehensions of the source
RECURSIVE nonblank_stripped(_)
nonblank_stripped(lines0) ==
    Bind(lines0, LAMBDA lines :
        IF lines = <<>> THEN <<>>
        ELSE Bind(strip(lines[1]), LAMBDA ln :
                (IF ln # "" THEN <<ln>> ELSE <<>>) \o nonblank_stripped(Tail(lines))))

-----------------------------------------------------------------------------
(* Title rules *)

FLUFF_WORDS ==
    {"great", "amazing", "awesome", "nice", "wow", "look", "fast", "shipping",
     "must", "see", "hot"}

_clean_token(s) == collapse_ws(strip(s))

\* position i of s starts a maximal run of \w characters or of \W characters
RunStart(s, i) == i = 1 \/ IsWordCh(Ch(s, i)) # IsWordCh(Ch(s, i - 1))

\* the last position of the run that starts at position i of s
RunEnd(s, i) ==
    CHOOSE e \in i..Len(s) :
        /\ e = Len(s) \/ IsWordCh(Ch(s, e + 1)) # IsWordCh(Ch(s, i))
        /\ \A k \in i..e : IsWordCh(Ch(s, k)) = IsWordCh(Ch(s, i))

\* the pieces of re.split(r"(\W+)", text) joined again, fluff words left out
drop_fluff(s0) ==
    Bind(s0, LAMBDA s :
        Flat([i \in 1..Len(s) |->
                IF ~RunStart(s, i) THEN ""
                ELSE Bind(SubSeq(s, i, RunEnd(s, i)), LAMBDA piece :
                        IF IsWordCh(Ch(s, i)) /\ lower(piece) \in FLUFF_WORDS
                        THEN "" ELSE piece)]))

_strip_fluff(text) == _clean_token(drop_fluff(text))

\* \b at the gap before position i of s
WordBoundary(s, i) ==
    LET before == i > 1 /\ IsWordCh(Ch(s, i - 1))
        after == i <= Len(s) /\ IsWordCh(Ch(s, i))
    IN before # after

\* does s, lower-cased, carry word w at position p
HasWordAt(s, p, w) ==
    p + Len(w) - 1 <= Len(s) /\ lower(SubSeq(s, p, p + Len(w) - 1)) = w

\* The regex \b(\d{1,2})\s*(inches|inch)\b tried at position i with d digits:
\* the position after the match, or 0 when it does not match
InchMatchEndD(s, i, d) ==
    IF ~(i + d - 1 <= Len(s)
         /\ \A k \in i..(i + d - 1) : IsDigit(Ch(s, k))
         /\ WordBoundary(s, i))
    THEN 0
    ELSE Bind((i + d) + LeadingSpaces(Rest(s, i + d)), LAMBDA p :
            IF HasWordAt(s, p, "inches") /\ WordBoundary(s, p + 6) THEN p + 6
            ELSE IF HasWordAt(s, p, "inch") /\ WordBoundary(s, p + 4) THEN p + 4
            ELSE 0)

\* the regex tried at position i, two digits before one: <<digits, end>>
InchMatch(s, i) ==
    IF InchMatchEndD(s, i, 2) > 0 THEN <<2, InchMatchEndD(s, i, 2)>>
    ELSE IF InchMatchEndD(s, i, 1) > 0 THEN <<1, InchMatchEndD(s, i, 1)>>
    ELSE <<0, 0>>

\* re.sub(r"\b(\d{1,2})\s*(inches|inch)\b", r'\1"', s, flags=re.IGNORECASE):
\* a match starts only at a digit after a \b, so no match starts inside another
inch_sub(s0) ==
    Bind(s0, LAMBDA s :
        Flat([i \in 1..Len(s) |->
                IF \E j \in 1..(i - 1) : IsDigit(Ch(s, j)) /\ InchMatch(s, j)[2] > i
                THEN ""
                ELSE IF IsDigit(Ch(s, i)) /\ InchMatch(s, i)[1] > 0
                THEN SubSeq(s, i, i + InchMatch(s, i)[1] - 1) \o "\""
                ELSE Ch(s, i)]))

_short_featureize(s) == inch_sub(_clean_token(s))

\* the loop of _keywords_from_features over the remaining lines
RECURSIVE keep_keywords(_, _, _)
keep_keywords(lines0, keep0, max_k) ==
    Bind(<<lines0, keep0>>, LAMBDA lk :
        IF lk[1] = <<>> THEN lk[2]
        ELSE Bind(_short_featureize(_strip_fluff(lk[1][1])), LAMBDA ln :
            Bind(IF 2 <= Len(ln) /\ Len(ln) <= 26 THEN Append(lk[2], ln) ELSE lk[2],
                 LAMBDA keep :
                    IF Len(keep) >= max_k THEN keep
                    ELSE keep_keywords(Tail(lk[1]), keep, max_k))))

\* _keywords_from_features with the cap counted on the lines read, not on the
\* keywords kept
_keywords_from_features_cap_on_lines(features_lines, max_k) ==
    Bind(nonblank_stripped(splitlines(features_lines)), LAMBDA lines :
        keep_keywords(SubSeq(lines, 1, Min(max_k, Len(lines))), <<>>, max_k))

_keywords_from_features(features_lines, max_k) ==
    Bind(nonblank_stripped(splitlines(features_lines)), LAMBDA lines :
        keep_keywords(SubSeq(lines, 1, IF Len(lines) < 12 THEN Len(lines) ELSE 12),
                      <<>>, max_k))

\* [_clean_token(p) for p in parts if _clean_token(p)]
RECURSIVE clean_parts(_)
clean_parts(parts0) ==
    Bind(parts0, LAMBDA parts :
        IF parts = <<>> THEN <<>>
        ELSE Bind(_clean_token(parts[1]), LAMBDA p :
                (IF p # "" THEN <<p>> ELSE <<>>) \o clean_parts(Tail(parts))))

\* while trimmed and len(_clean_token(" ".join(trimmed))) > limit: trimmed.pop()
RECURSIVE pop_until_fits(_, _)
pop_until_fits(trimmed0, limit) ==
    Bind(trimmed0, LAMBDA trimmed :
        IF trimmed # <<>> /\ Len(_clean_token(join(trimmed))) > limit
        THEN pop_until_fits(SubSeq(trimmed, 1, Len(trimmed) - 1), limit)
        ELSE trimmed)

_fit_to_limit(parts0, limit) ==
    Bind(clean_parts(parts0), LAMBDA parts :
        IF parts = <<>> THEN ""
        ELSE Bind(_strip_fluff(_clean_token(join(parts))), LAMBDA title :
            IF Len(title) <= limit THEN title
            ELSE Bind(_clean_token(join(pop_until_fits(parts, limit))), LAMBDA title2 :
                IF Len(title2) <= limit THEN title2
                ELSE rstrip(Take(title2, limit)))))

\* title_candidates with the model left out of the first candidate
title_candidates_no_model(brand, item, model, condition, features_lines) ==
    Bind(_strip_fluff(_clean_token(brand)), LAMBDA b :
    Bind(_strip_fluff(_clean_token(item)), LAMBDA it :
    Bind(_strip_fluff(_clean_token(model)), LAMBDA m :
    Bind(_clean_token(condition), LAMBDA cond :
    Bind(_keywords_from_features(features_lines, 2), LAMBDA kws :
       <<  <<"eBay-fit", <<b, it>> \o kws>>  >>
       \o (IF kws # <<>> THEN << <<"feature-first", <<b, it, m, kws[1]>> >> >> ELSE <<>>)
       \o << <<"short", <<b, it, m>> >>, <<"super short", <<b, it>> >> >>
       \o (IF cond # "" /\ cond # "For parts/repair"
           THEN << <<"condition", <<b, it, m, cond>> >> >>
           ELSE IF cond = "For parts/repair"
           THEN << <<"parts/repair", <<b, it, m, "For Parts/Repair">> >> >>
           ELSE <<>>))))))

\* title_candidates with only the first keyword in the first candidate
title_candidates_one_keyword(brand, item, model, condition, features_lines) ==
    Bind(_strip_fluff(_clean_token(brand)), LAMBDA b :
    Bind(_strip_fluff(_clean_token(item)), LAMBDA it :
    Bind(_strip_fluff(_clean_token(model)), LAMBDA m :
    Bind(_clean_token(condition), LAMBDA cond :
    Bind(_keywords_from_features(features_lines, 2), LAMBDA kws :
       <<  <<"eBay-fit", <<b, it, m>> \o SubSeq(kws, 1, Min(1, Len(kws)))>>  >>
       \o (IF kws # <<>> THEN << <<"feature-first", <<b, it, m, kws[1]>> >> >> ELSE <<>>)
       \o << <<"short", <<b, it, m>> >>, <<"super short", <<b, it>> >> >>
       \o (IF cond # "" /\ cond # "For parts/repair"
           THEN << <<"condition", <<b, it, m, cond>> >> >>
           ELSE IF cond = "For parts/repair"
           THEN << <<"parts/repair", <<b, it, m, "For Parts/Repair">> >> >>
           ELSE <<>>))))))

\* title_candidates with the conditional candidate generated before the short
\* ones
title_candidates_condition_early(brand, item, model, condition, features_lines) ==
    Bind(_strip_fluff(_clean_token(brand)), LAMBDA b :
    Bind(_strip_fluff(_clean_token(item)), LAMBDA it :
    Bind(_strip_fluff(_clean_token(model)), LAMBDA m :
    Bind(_clean_token(condition), LAMBDA cond :
    Bind(_keywords_from_features(features_lines, 2), LAMBDA kws :
       <<  <<"eBay-fit", <<b, it, m>> \o kws>>  >>
       \o (IF kws # <<>> THEN << <<"feature-first", <<b, it, m, kws[1]>> >> >> ELSE <<>>)
       \o (IF cond # "" /\ cond # "For parts/repair"
           THEN << <<"condition", <<b, it, m, cond>> >> >>
           ELSE IF cond = "For parts/repair"
           THEN << <<"parts/repair", <<b, it, m, "For Parts/Repair">> >> >>
           ELSE <<>>)
       \o << <<"short", <<b, it, m>> >>, <<"super short", <<b, it>> >> >>)))))

\* the candidates list of build_title_variants: <<label, parts>> pairs
title_candidates(brand, item, model, condition, features_lines) ==
    Bind(_strip_fluff(_clean_token(brand)), LAMBDA b :
    Bind(_strip_fluff(_clean_token(item)), LAMBDA it :
    Bind(_strip_fluff(_clean_token(model)), LAMBDA m :
    Bind(_clean_token(condition), LAMBDA cond :
    Bind(_keywords_from_features(features_lines, 2), LAMBDA kws :
       <<  <<"eBay-fit", <<b, it, m>> \o kws>>  >>
       \o (IF kws # <<>> THEN << <<"feature-first", <<b, it, m, kws[1]>> >> >> ELSE <<>>)
       \o << <<"short", <<b, it, m>> >>, <<"super short", <<b, it>> >> >>
       \o (IF cond # "" /\ cond # "For parts/repair"
           THEN << <<"condition", <<b, it, m, cond>> >> >>
           ELSE IF cond = "For parts/repair"
           THEN << <<"parts/repair", <<b, it, m, "For Parts/Repair">> >> >>
           ELSE <<>>))))))

\* ebay_limit with the eBay case forgotten
ebay_limit_no_ebay(platform) == 90

\* ebay_limit of build_title_variants
ebay_limit(platform) == IF lower(strip(platform)) = "ebay" THEN 80 ELSE 90

\* label_limit without the limits of the two short labels
label_limit_no_short(platform, label) == ebay_limit(platform)

\* the limit the loop of build_title_variants gives a label
label_limit(platform, label) ==
    IF label = "super short" THEN 45
    ELSE IF label = "short" THEN 60
    ELSE ebay_limit(platform)

\* the de-duplication key compared case-sensitively
dedupe_key_case_sensitive(t) == t

\* key = t.lower()
dedupe_key(t) == lower(t)

\* the de-duplicating loop of build_title_variants over the remaining candidates
RECURSIVE collect_variants(_, _, _, _, _)
collect_variants(platform, cands0, seen0, out0, max_variants) ==
    Bind(<<cands0, seen0, out0>>, LAMBDA st :
        IF st[1] = <<>> THEN st[3]
        ELSE Bind(_clean_token(_fit_to_limit(st[1][1][2],
                                             label_limit(platform, st[1][1][1]))), LAMBDA t :
             Bind(dedupe_key(t), LAMBDA key :
                IF t = "" \/ key \in st[2]
                THEN collect_variants(platform, Tail(st[1]), st[2], st[3], max_variants)
                ELSE IF Len(st[3]) + 1 >= max_variants
                THEN Append(st[3], <<st[1][1][1], t>>)
                ELSE collect_variants(platform, Tail(st[1]), st[2] \cup {key},
                                      Append(st[3], <<st[1][1][1], t>>), max_variants))))

\* fallback_variants without the "Item for sale" default
fallback_variants_no_default(platform, brand, item, model) ==
    << <<"eBay-fit",
         _fit_to_limit(<< _strip_fluff(_clean_token(brand)),
                          _strip_fluff(_clean_token(item)),
                          _strip_fluff(_clean_token(model)) >>,
                       IF lower(strip(platform)) = "ebay" THEN 80 ELSE 90)>> >>

\* out = [("eBay-fit", _fit_to_limit([b, it, m], ebay_limit) or "Item for sale")]
fallback_variants(platform, brand, item, model) ==
    Bind(_fit_to_limit(<< _strip_fluff(_clean_token(brand)),
                          _strip_fluff(_clean_token(item)),
                          _strip_fluff(_clean_token(model)) >>,
                       ebay_limit(platform)), LAMBDA t :
        << <<"eBay-fit", IF t # "" THEN t ELSE "Item for sale">> >>)

\* build_title_variants without the fallback for an empty list
build_title_variants_no_fallback(platform, brand, item, model, condition, features_lines, max_variants) ==
    collect_variants(platform,
                     title_candidates(brand, item, model, condition, features_lines),
                     {}, <<>>, max_variants)

build_title_variants(platform, brand, item, model, condition, features_lines, max_variants) ==
    Bind(collect_variants(platform,
                          title_candidates(brand, item, model, condition, features_lines),
                          {}, <<>>, max_variants), LAMBDA out :
        IF out = <<>> THEN fallback_variants(platform, brand, item, model) ELSE out)

-----------------------------------------------------------------------------
(* Descriptions and the listing payload *)

CONDITION_TEMPLATES ==
    [c \in {"New", "Open box", "Used - Like New", "Used - Good", "Used - Fair",
            "Used - Poor", "For parts/repair"} |->
        CASE c = "New" -> "Brand new, unused. Ships fast."
          [] c = "Open box" -> "Open box item. Tested/inspected. Ships fast."
          [] c = "Used - Like New" -> "Lightly used. Clean and fully functional. Ships fast."
          [] c = "Used - Good" -> "Normal wear from use. Fully functional unless noted. Ships fast."
          [] c = "Used - Fair" -> "Noticeable wear. Fully functional unless noted. Please review photos/notes."
          [] c = "Used - Poor" -> "Heavy wear. May have issues. Please read notes carefully."
          [] c = "For parts/repair" -> "For parts/repair. Sold as-is. No returns."]

\* ASCII stand-ins for the two non-ASCII literals of platform_description: the
\* placeholder of the eBay template and the bullet of the Facebook and OfferUp ones
EM_DASH == "~"

BULLET == "+"

\* "\n".join(lines)
join_lines(lines0) ==
    Bind(lines0, LAMBDA lines :
        Flat([i \in 1..Len(lines) |-> IF i = 1 THEN lines[i] ELSE "\n" \o lines[i]]))

\* [prefix + " " + x for x in items]
bulleted(prefix, items0) ==
    Bind(items0, LAMBDA items : [i \in 1..Len(items) |-> prefix \o " " \o items[i]])

\* x or placeholder
or_else(x0, placeholder) == Bind(x0, LAMBDA x : IF x # "" THEN x ELSE placeholder)

\* s.replace("**", "")
unbold(s0) ==
    Bind(s0, LAMBDA s :
        Flat([i \in 1..Len(s) |->
                IF Ch(s, i) # "*" THEN Ch(s, i)
                ELSE Bind(CHOOSE j \in 1..i :
                             /\ \A k \in j..i : Ch(s, k) = "*"
                             /\ j = 1 \/ Ch(s, j - 1) # "*", LAMBDA first :
                     Bind(CHOOSE j \in i..Len(s) :
                             /\ \A k \in i..j : Ch(s, k) = "*"
                             /\ j = Len(s) \/ Ch(s, j + 1) # "*", LAMBDA last :
                        IF (last - first + 1) % 2 = 1 /\ i = last THEN "*" ELSE ""))]))

platform_description(platform0, title, condition, category, qty, features, defects, seller_city, pickup_line, shipping_line, handling_time, returns_line, parts_repair_note) ==
    Bind(<<lower(strip(platform0)), join_lines(bulleted("-", features)), join_lines(bulleted("-", defects))>>, LAMBDA pfd :
    LET platform == pfd[1]
        feat_bul == pfd[2]
        def_bul == pfd[3]
        blank == <<"">>
    IN IF platform = "ebay" THEN
           strip(
               "## " \o title \o "\n\n"
               \o (IF feat_bul # "" THEN "### Key features\n" \o feat_bul \o "\n\n" ELSE "")
               \o (IF def_bul # "" THEN "### Notes / defects\n" \o def_bul \o "\n\n" ELSE "")
               \o "**Condition:** " \o condition \o "\n"
               \o "**Quantity:** " \o ToString(qty) \o "\n"
               \o "**Category:** " \o or_else(category, EM_DASH) \o "\n\n"
               \o "**Location:** " \o or_else(seller_city, EM_DASH) \o "\n"
               \o "**Pickup:** " \o or_else(pickup_line, EM_DASH) \o "\n"
               \o "**Shipping:** " \o or_else(shipping_line, EM_DASH) \o "\n"
               \o "**Handling time:** " \o or_else(handling_time, EM_DASH) \o "\n"
               \o "**Returns:** " \o or_else(returns_line, EM_DASH) \o "\n\n"
               \o (IF parts_repair_note # "" THEN parts_repair_note \o "\n" ELSE ""))
       ELSE IF platform \in {"facebook marketplace", "facebook"} THEN
           strip(join_lines(
               <<title, "", "Condition: " \o condition, "Qty: " \o ToString(qty)>>
               \o (IF category # "" THEN <<"Category: " \o category>> ELSE <<>>)
               \o blank
               \o (IF features # <<>>
                   THEN <<"Features:">> \o bulleted(BULLET, features) \o blank ELSE <<>>)
               \o (IF defects # <<>>
                   THEN <<"Notes/defects:">> \o bulleted(BULLET, defects) \o blank ELSE <<>>)
               \o <<"Pickup: " \o or_else(pickup_line, "-"),
                    "Shipping: " \o or_else(shipping_line, "-"),
                    "Location: " \o or_else(seller_city, "-"),
                    "Returns: " \o or_else(returns_line, "-")>>
               \o (IF parts_repair_note # "" THEN <<"", unbold(parts_repair_note)>> ELSE <<>>)))
       ELSE IF platform = "mercari" THEN
           strip(join_lines(
               <<title, "">>
               \o (IF features # <<>>
                   THEN <<"Details:">> \o bulleted("-", features) \o blank ELSE <<>>)
               \o (IF defects # <<>>
                   THEN <<"Condition notes:">> \o bulleted("-", defects) \o blank ELSE <<>>)
               \o <<"Condition: " \o condition>>
               \o (IF parts_repair_note # "" THEN <<unbold(parts_repair_note)>> ELSE <<>>)))
       ELSE IF platform = "offerup" THEN
           strip(join_lines(
               <<title, "", "Condition: " \o condition>>
               \o (IF features # <<>>
                   THEN <<"", "Highlights:">> \o bulleted(BULLET, features) ELSE <<>>)
               \o (IF defects # <<>>
                   THEN <<"", "Notes:">> \o bulleted(BULLET, defects) ELSE <<>>)
               \o <<"",
                    "Pickup: " \o or_else(pickup_line, "-"),
                    "Location: " \o or_else(seller_city, "-")>>
               \o (IF parts_repair_note # "" THEN <<"", unbold(parts_repair_note)>> ELSE <<>>)))
       ELSE strip(title \o "\n\nCondition: " \o condition \o "\n\n" \o feat_bul
                  \o "\n\n" \o def_bul))

PARTS_REPAIR_NOTE ==
    "**Parts/repair note:** Sold as-is for parts/repair. "
    \o "May have issues not listed. Please ask questions before purchase."

\* 'tmpl not in defects' taken as always true
Contains_nothing(seq, x) == FALSE

\* x in seq
Contains(seq, x) == \E i \in 1..Len(seq) : seq[i] = x

build_listing_payload(platform, brand, item, model, condition, category, qty, features_lines, defects_lines, seller_city, pickup_line, shipping_line, handling_time, returns_line, include_parts_repair_note, use_condition_template) ==
    Bind(nonblank_stripped(splitlines(features_lines)), LAMBDA features :
    Bind(nonblank_stripped(splitlines(defects_lines)), LAMBDA defects0 :
    Bind(IF use_condition_template /\ condition \in DOMAIN CONDITION_TEMPLATES
            /\ ~Contains(defects0, CONDITION_TEMPLATES[condition])
         THEN Append(defects0, CONDITION_TEMPLATES[condition])
         ELSE defects0, LAMBDA defects :
    Bind(build_title_variants(platform, brand, item, model, condition, features_lines, 6),
         LAMBDA title_variants :
    Bind(IF title_variants # <<>> THEN title_variants[1][2] ELSE "Item for sale",
         LAMBDA chosen_title :
    Bind(IF include_parts_repair_note /\ condition = "For parts/repair"
         THEN PARTS_REPAIR_NOTE ELSE "", LAMBDA parts_repair_note :
        [platform |-> platform,
         title |-> chosen_title,
         title_variants |-> title_variants,
         desc |-> platform_description(platform, chosen_title, condition, category, qty,
                                       features, defects, seller_city, pickup_line,
                                       shipping_line, handling_time, returns_line,
                                       parts_repair_note),
         features |-> features,
         defects |-> defects,
         parts_repair_note |-> parts_repair_note]))))))

-----------------------------------------------------------------------------
(* Fee, profit and flip-score arithmetic *)

\* one dollar and one cent of a float amount of money, in micro-dollars
Dollar == 1000000

Cent == 10000

\* calc_profit with the packaging cost left out of the total cost
calc_profit_no_packaging(sale_price, cogs, ebay_fee_pct, processing_pct, processing_fixed, shipping_cost, packaging_cost) ==
    LET ebay_fee == (sale_price \div Cent) * ebay_fee_pct
        processing_fee == (sale_price \div Cent) * processing_pct + processing_fixed
        total_fees == ebay_fee + processing_fee
        total_cost == cogs + shipping_cost + total_fees
        profit == sale_price - total_cost
        margin == IF sale_price > 0 THEN profit \div (sale_price \div Cent) ELSE 0
    IN [ebay_fee |-> ebay_fee,
        processing_fee |-> processing_fee,
        total_fees |-> total_fees,
        total_cost |-> total_cost,
        profit |-> profit,
        margin_pct |-> margin]

\* calc_profit dividing by the price without the guard: at the price 0 the
\* division raises and no record is returned
calc_profit_unguarded(sale_price, cogs, ebay_fee_pct, processing_pct, processing_fixed, shipping_cost, packaging_cost) ==
    LET ebay_fee == (sale_price \div Cent) * ebay_fee_pct
        processing_fee == (sale_price \div Cent) * processing_pct + processing_fixed
        total_fees == ebay_fee + processing_fee
        total_cost == cogs + shipping_cost + packaging_cost + total_fees
        profit == sale_price - total_cost
    IN IF sale_price = 0 THEN [error |-> "ZeroDivisionError"]
       ELSE [ebay_fee |-> ebay_fee,
             processing_fee |-> processing_fee,
             total_fees |-> total_fees,
             total_cost |-> total_cost,
             profit |-> profit,
             margin_pct |-> profit \div (sale_price \div Cent)]

\* calc_profit taking the fee percentages as fractions of one, not of a hundred
calc_profit_pct_as_fraction(sale_price, cogs, ebay_fee_pct, processing_pct, processing_fixed, shipping_cost, packaging_cost) ==
    LET ebay_fee == (sale_price \div Cent) * ebay_fee_pct * 100
        processing_fee == (sale_price \div Cent) * processing_pct * 100 + processing_fixed
        total_fees == ebay_fee + processing_fee
        total_cost == cogs + shipping_cost + packaging_cost + total_fees
        profit == sale_price - total_cost
        margin == IF sale_price > 0 THEN profit \div (sale_price \div Cent) ELSE 0
    IN [ebay_fee |-> ebay_fee,
        processing_fee |-> processing_fee,
        total_fees |-> total_fees,
        total_cost |-> total_cost,
        profit |-> profit,
        margin_pct |-> margin]

\* calc_profit dividing by a price floored at one cent instead of guarding
\* the price 0
calc_profit_floored_price(sale_price, cogs, ebay_fee_pct, processing_pct, processing_fixed, shipping_cost, packaging_cost) ==
    LET ebay_fee == (sale_price \div Cent) * ebay_fee_pct
        processing_fee == (sale_price \div Cent) * processing_pct + processing_fixed
        total_fees == ebay_fee + processing_fee
        total_cost == cogs + shipping_cost + packaging_cost + total_fees
        profit == sale_price - total_cost
        margin == profit \div ((IF sale_price > Cent THEN sale_price ELSE Cent) \div Cent)
    IN [ebay_fee |-> ebay_fee,
        processing_fee |-> processing_fee,
        total_fees |-> total_fees,
        total_cost |-> total_cost,
        profit |-> profit,
        margin_pct |-> margin]

\* calc_profit: amounts in micro-dollars, percentages in basis points,
\* margin_pct in hundredths of a percent
calc_profit(sale_price, cogs, ebay_fee_pct, processing_pct, processing_fixed, shipping_cost, packaging_cost) ==
    LET ebay_fee == (sale_price \div Cent) * ebay_fee_pct
        processing_fee == (sale_price \div Cent) * processing_pct + processing_fixed
        total_fees == ebay_fee + processing_fee
        total_cost == cogs + shipping_cost + packaging_cost + total_fees
        profit == sale_price - total_cost
        margin == IF sale_price > 0 THEN profit \div (sale_price \div Cent) ELSE 0
    IN [ebay_fee |-> ebay_fee,
        processing_fee |-> processing_fee,
        total_fees |-> total_fees,
        total_cost |-> total_cost,
        profit |-> profit,
        margin_pct |-> margin]

\* shipping_estimate without the floor of 0 on the weight
shipping_estimate_unclamped(method, weight_lb) ==
    IF method = "Ground (est.)" THEN 650 * Cent + 110 * weight_lb * (Cent \div 100)
    ELSE IF method = "Priority (est.)" THEN 950 * Cent + 150 * weight_lb * (Cent \div 100)
    ELSE IF method = "Local pickup" THEN 0
    ELSE 750 * Cent + 120 * weight_lb * (Cent \div 100)

\* shipping_estimate: the weight in hundredths of a pound, the estimate in
\* micro-dollars
shipping_estimate(method, weight_lb) ==
    LET w == IF weight_lb > 0 THEN weight_lb ELSE 0
    IN IF method = "Ground (est.)" THEN 650 * Cent + 110 * w * (Cent \div 100)
       ELSE IF method = "Priority (est.)" THEN 950 * Cent + 150 * w * (Cent \div 100)
       ELSE IF method = "Local pickup" THEN 0
       ELSE 750 * Cent + 120 * w * (Cent \div 100)

\* round(score, 1) of a score in hundredths: the nearest tenth, a tie to the even one
round1(x) ==
    LET q == x \div 10
        r == x % 10
    IN IF r < 5 THEN 10 * q
       ELSE IF r > 5 THEN 10 * (q + 1)
       ELSE IF q % 2 = 0 THEN 10 * q ELSE 10 * (q + 1)

\* clamp_score without its lower bound
clamp_score_upper_only(x) == IF x < 1000 THEN x ELSE 1000

\* max(1.0, min(10.0, x))
clamp_score(x) ==
    LET lo == IF x < 1000 THEN x ELSE 1000
    IN IF lo > 100 THEN lo ELSE 100

\* flip_adjustments with the first threshold strict
flip_adjustments_strict(profit, margin_pct, sale_price) ==
    << IF profit > 25 * Dollar THEN 200 ELSE 0,
       IF profit >= 50 * Dollar THEN 300 ELSE 0,
       IF margin_pct >= 4000 THEN 200 ELSE 0,
       IF margin_pct >= 6000 THEN 300 ELSE 0,
       IF profit < 10 * Dollar THEN -300 ELSE 0,
       IF margin_pct < 2000 THEN -300 ELSE 0,
       IF sale_price > 200 * Dollar /\ profit < 20 * Dollar THEN -200 ELSE 0 >>

\* flip_adjustments without the penalty for a margin under 20 %
flip_adjustments_no_margin_penalty(profit, margin_pct, sale_price) ==
    << IF profit >= 25 * Dollar THEN 200 ELSE 0,
       IF profit >= 50 * Dollar THEN 300 ELSE 0,
       IF margin_pct >= 4000 THEN 200 ELSE 0,
       IF margin_pct >= 6000 THEN 300 ELSE 0,
       IF profit < 10 * Dollar THEN -300 ELSE 0,
       0,
       IF sale_price > 200 * Dollar /\ profit < 20 * Dollar THEN -200 ELSE 0 >>

\* the seven gated adjustments of flip_score, in the order of the source
flip_adjustments(profit, margin_pct, sale_price) ==
    << IF profit >= 25 * Dollar THEN 200 ELSE 0,
       IF profit >= 50 * Dollar THEN 300 ELSE 0,
       IF margin_pct >= 4000 THEN 200 ELSE 0,
       IF margin_pct >= 6000 THEN 300 ELSE 0,
       IF profit < 10 * Dollar THEN -300 ELSE 0,
       IF margin_pct < 2000 THEN -300 ELSE 0,
       IF sale_price > 200 * Dollar /\ profit < 20 * Dollar THEN -200 ELSE 0 >>

\* score after the adjustments adjs[order[1]], ..., adjs[order[n]] were added to it
RECURSIVE add_in_order(_, _, _, _)
add_in_order(score, adjs, order, n) ==
    IF n = 0 THEN score
    ELSE add_in_order(score, adjs, order, n - 1) + adjs[order[n]]

flip_score(profit, margin_pct, sale_price) ==
    LET adjs == flip_adjustments(profit, margin_pct, sale_price)
        score == add_in_order(500, adjs, <<1, 2, 3, 4, 5, 6, 7>>, 7)
    IN clamp_score(round1(score))

\* flip_badge with the first threshold strict
flip_badge_strict(score) ==
    IF score < 300 THEN "Bad Flip"
    ELSE IF score <= 600 THEN "Risky"
    ELSE IF score <= 800 THEN "Good Flip"
    ELSE "Great Flip"

\* flip_badge: the labels without their leading emoji
flip_badge(score) ==
    IF score <= 300 THEN "Bad Flip"
    ELSE IF score <= 600 THEN "Risky"
    ELSE IF score <= 800 THEN "Good Flip"
    ELSE "Great Flip"

-----------------------------------------------------------------------------
(* The invocations: each behaviour is one call of one core function.  The  *)
(* initial state holds the function's name and its argument record; the    *)
(* function's action stores what it returns.                               *)

\* bounds of the argument sets
MaxWordLen == 95

MaxFeatureLines == 2

MaxPriceSteps == 5

MaxWeightSteps == 10

MaxKeywordLines == 3

\* the string of n copies of character c
Rep(c, n) == Flat([i \in 1..n |-> c])

Platforms == {"eBay", "Mercari"}

Brands == {"", "  ", "Apple", "great", Rep("B", MaxWordLen)}

Items == {"", "MacBook Pro", Rep("I", 50)}

Models == {"", "A1990", Rep("M", 30)}

Conditions == {"", "New", "Used - Good", "For parts/repair"}

FeatureScripts ==
    { <<"16GB RAM", "512GB SSD", "Touch Bar">>,
      <<"NEW", "new", "Sealed box">>,
      <<"15 inch Retina display, great battery", "x", "Backlit keyboard">> }

FeatureTexts ==
    { join_lines(SubSeq(script, 1, Min(n, Len(script)))) :
        script \in FeatureScripts, n \in 0..MaxFeatureLines }

\* the arguments of build_listing_payload; the fields the form pre-fills
\* carry the form's defaults
ListingInputs ==
    { [platform |-> p, brand |-> b, item |-> i, model |-> m, condition |-> c,
       category |-> "", qty |-> 1, features_lines |-> f, defects_lines |-> "",
       seller_city |-> "Jacksonville, FL", pickup_line |-> "Porch pickup / meetup",
       shipping_line |-> "Ships within the US",
       handling_time |-> "Same or next business day",
       returns_line |-> "No returns (ask questions before buying)",
       include_parts_repair_note |-> TRUE, use_condition_template |-> TRUE] :
        p \in Platforms, b \in Brands, i \in Items, m \in Models, c \in Conditions,
        f \in FeatureTexts }

\* the platforms of the selectbox, eBay also as typed by a caller, and a
\* platform without a template of its own
DescriptionPlatforms ==
    {"eBay", " EBAY ", "Facebook Marketplace", "Mercari", "OfferUp", "Etsy"}

\* two conditions of the selectbox and one that is none of them
DescriptionConditions == {"For parts/repair", "Used - Good", "Broken"}

\* what is sold: the goods of example scenario 2 with a defect noted, goods
\* with a long brand and model, and a form left empty
Goods ==
    { [brand |-> "Apple", item |-> "MacBook Pro", model |-> "A1990",
       features_lines |-> "16GB RAM\n512GB SSD", defects_lines |-> "Small dent on lid"],
      [brand |-> Rep("B", 45), item |-> "MacBook Pro", model |-> Rep("M", 12),
       features_lines |-> "16GB RAM", defects_lines |-> ""],
      [brand |-> "", item |-> "  ", model |-> "",
       features_lines |-> "\n", defects_lines |-> ""] }

\* the category and the seller footer: filled in, and left blank
SellerFields ==
    { [category |-> "Laptops", seller_city |-> "Jacksonville, FL",
       pickup_line |-> "Porch pickup / meetup",
       shipping_line |-> "Ships within the US",
       handling_time |-> "Same or next business day",
       returns_line |-> "No returns (ask questions before buying)"],
      [category |-> "", seller_city |-> "", pickup_line |-> "", shipping_line |-> "",
       handling_time |-> "", returns_line |-> ""] }

\* the arguments of build_listing_payload that exercise the description
\* templates and the two toggles
DescriptionInputs ==
    { [platform |-> p, brand |-> g.brand, item |-> g.item, model |-> g.model,
       condition |-> c, category |-> f.category, qty |-> 3,
       features_lines |-> g.features_lines, defects_lines |-> g.defects_lines,
       seller_city |-> f.seller_city, pickup_line |-> f.pickup_line,
       shipping_line |-> f.shipping_line, handling_time |-> f.handling_time,
       returns_line |-> f.returns_line,
       include_parts_repair_note |-> note, use_condition_template |-> tmpl] :
        p \in DescriptionPlatforms, g \in Goods, c \in DescriptionConditions,
        f \in SellerFields, note \in BOOLEAN, tmpl \in BOOLEAN }

\* the arguments of build_listing_payload that exercise the condition
\* template: a condition of the table, an unknown one, none, and one with a
\* space around it; defects that are empty, that hold other lines, and that
\* hold the "Used - Good" sentence once, once with spaces around it, twice,
\* and in lower case
TemplateInputs ==
    { [in EXCEPT !.condition = c, !.defects_lines = dl] :
        in \in {d \in DescriptionInputs :
                   /\ d.brand = "Apple" /\ d.category = "Laptops"
                   /\ d.platform \in {"eBay", "Mercari"}
                   /\ d.condition = "Broken" /\ ~d.include_parts_repair_note},
        c \in {"Used - Good", "For parts/repair", "Broken", "", " Used - Good"},
        dl \in {"", "Small dent on lid",
                CONDITION_TEMPLATES["Used - Good"],
                "Small dent on lid\n  " \o CONDITION_TEMPLATES["Used - Good"] \o "  \n",
                CONDITION_TEMPLATES["Used - Good"] \o "\n" \o CONDITION_TEMPLATES["Used - Good"],
                lower(CONDITION_TEMPLATES["Used - Good"])} }

\* the arguments of calc_profit
ProfitInputs ==
    [sale_price : {k * 50 * Dollar : k \in 0..MaxPriceSteps}
                  \cup {7999 * Cent, -20 * Dollar},
     cogs : {-5 * Dollar, 0, 25 * Dollar},
     ebay_fee_pct : {-100, 0, 1325},
     processing_pct : {-50, 290},
     processing_fixed : {-30 * Cent, 0, 30 * Cent},
     shipping_cost : {-1 * Dollar, 0, 970 * Cent},
     packaging_cost : {-25 * Cent, 150 * Cent}]

\* the arguments of _fit_to_limit: brand, item and model as parts, and the four
\* limits build_title_variants uses
FitInputs ==
    [parts : {<<b, i, m>> : b \in Brands, i \in Items, m \in Models},
     limit : {45, 60, 80, 90}]

\* the arguments of _keywords_from_features: texts of up to MaxKeywordLines
\* lines, each too short, of the shortest or longest kept length, too long,
\* blank or an ordinary feature; texts with a line that is all fluff or that
\* names a size in inches; texts of 12 to 15 lines whose two ordinary lines
\* come last; and max_k 1 or 2
KeywordInputs ==
    LET KeywordLines == {"x", "ab", "16GB RAM", Rep("w", 26), Rep("w", 27), ""}
        Short == UNION {[1..k -> KeywordLines] : k \in 0..MaxKeywordLines}
        Fluff == {<<"great", "15 inch screen", "16GB RAM">>,
                  <<"brand new", "great", "amazing">>}
        Long == {[i \in 1..n |-> "x"] \o <<"late one", "later two">> : n \in 10..13}
    IN  [features_lines : {join_lines(s) : s \in Short \cup Fluff \cup Long},
         max_k : {1, 2}]

\* the arguments of shipping_estimate: the three methods of the selectbox, two
\* other texts, and weights in quarter pounds from below 0 upwards
ShippingInputs ==
    [method : {"Ground (est.)", "Priority (est.)", "Local pickup", "Freight", ""},
     weight_lb : {25 * k : k \in -3..MaxWeightSteps} \cup {-1, 1}]

\* the arguments of flip_score: values on both sides of every threshold
ScoreInputs ==
    [profit : {-5 * Dollar, 999 * Cent, 10 * Dollar, 1999 * Cent, 20 * Dollar,
               2499 * Cent, 25 * Dollar, 4999 * Cent, 50 * Dollar},
     margin_pct : {-1000, 1999, 2000, 3999, 4000, 5999, 6000},
     sale_price : {0, 200 * Dollar, 20001 * Cent}]

\* the arguments of flip_badge: the scores 1.0, 1.1, ..., 10.0
BadgeInputs == [score : {10 * t : t \in 10..100}]

InitListing ==
    /\ op = "build_listing_payload"
    /\ input \in ListingInputs
    /\ output = NoOutput
    /\ NoSession

InitDescription ==
    /\ op = "build_listing_payload"
    /\ input \in DescriptionInputs
    /\ output = NoOutput
    /\ NoSession

InitTemplate ==
    /\ op = "build_listing_payload"
    /\ input \in TemplateInputs
    /\ output = NoOutput
    /\ NoSession

InitProfit ==
    /\ op = "calc_profit"
    /\ input \in ProfitInputs
    /\ output = NoOutput
    /\ NoSession

InitFit ==
    /\ op = "_fit_to_limit"
    /\ input \in FitInputs
    /\ output = NoOutput
    /\ NoSession

InitKeywords ==
    /\ op = "_keywords_from_features"
    /\ input \in KeywordInputs
    /\ output = NoOutput
    /\ NoSession

InitShipping ==
    /\ op = "shipping_estimate"
    /\ input \in ShippingInputs
    /\ output = NoOutput
    /\ NoSession

InitScore ==
    /\ \/ op = "flip_score" /\ input \in ScoreInputs
       \/ op = "flip_badge" /\ input \in BadgeInputs
    /\ output = NoOutput
    /\ NoSession

InitCore == InitDescription \/ InitProfit

Init == InitListing \/ InitDescription \/ InitTemplate \/ InitFit \/ InitKeywords \/ InitProfit \/ InitShipping \/ InitScore

BuildListingPayload ==
    /\ op = "build_listing_payload"
    /\ output = NoOutput
    /\ output' = Return(build_listing_payload(
                     input.platform, input.brand, input.item, input.model,
                     input.condition, input.category, input.qty,
                     input.features_lines, input.defects_lines, input.seller_city,
                     input.pickup_line, input.shipping_line, input.handling_time,
                     input.returns_line, input.include_parts_repair_note,
                     input.use_condition_template))
    /\ UNCHANGED <<op, input, session_state, files>>

CalcProfit ==
    /\ op = "calc_profit"
    /\ output = NoOutput
    /\ output' = Return(calc_profit(input.sale_price, input.cogs, input.ebay_fee_pct,
                             input.processing_pct, input.processing_fixed,
                             input.shipping_cost, input.packaging_cost))
    /\ UNCHANGED <<op, input, session_state, files>>

FitToLimit ==
    /\ op = "_fit_to_limit"
    /\ output = NoOutput
    /\ output' = Return(_fit_to_limit(input.parts, input.limit))
    /\ UNCHANGED <<op, input, session_state, files>>

KeywordsFromFeatures ==
    /\ op = "_keywords_from_features"
    /\ output = NoOutput
    /\ output' = Return(_keywords_from_features(input.features_lines, input.max_k))
    /\ UNCHANGED <<op, input, session_state, files>>

ShippingEstimate ==
    /\ op = "shipping_estimate"
    /\ output = NoOutput
    /\ output' = Return(shipping_estimate(input.method, input.weight_lb))
    /\ UNCHANGED <<op, input, session_state, files>>

FlipScore ==
    /\ op = "flip_score"
    /\ output = NoOutput
    /\ output' = Return(flip_score(input.profit, input.margin_pct, input.sale_price))
    /\ UNCHANGED <<op, input, session_state, files>>

FlipBadge ==
    /\ op = "flip_badge"
    /\ output = NoOutput
    /\ output' = Return(flip_badge(input.score))
    /\ UNCHANGED <<op, input, session_state, files>>

NextListing == BuildListingPayload

NextProfit == CalcProfit

NextFit == FitToLimit

NextShipping == ShippingEstimate

NextCore == BuildListingPayload \/ CalcProfit

NextScore == FlipScore \/ FlipBadge

Next == BuildListingPayload \/ FitToLimit \/ KeywordsFromFeatures \/ CalcProfit \/ ShippingEstimate \/ FlipScore \/ FlipBadge

SpecListing == InitListing /\ [][NextListing]_vars

SpecDescription == InitDescription /\ [][NextListing]_vars

SpecTemplate == InitTemplate /\ [][NextListing]_vars

SpecProfit == InitProfit /\ [][NextProfit]_vars

SpecFit == InitFit /\ [][NextFit]_vars

SpecKeywords == InitKeywords /\ [][KeywordsFromFeatures]_vars

SpecShipping == InitShipping /\ [][NextShipping]_vars

\* the listing builder and the profit calculator, on well-formed and on
\* malformed inputs
SpecCore == InitCore /\ [][NextCore]_vars

SpecScore == InitScore /\ [][NextScore]_vars

Spec == Init /\ [][Next]_vars

\* the invoked function has returned
Returned == output.returned

-----------------------------------------------------------------------------
(* Concurrent invocations: several callers, each running one call of the    *)
(* listing builder or of the profit calculator at a time.  Here op, input   *)
(* and output hold one value per caller: output[c] is the frame of caller   *)
(* c's running call, its position pc and the locals assigned so far, and a  *)
(* call advances by the statements of its function while the other callers' *)
(* calls advance in between.  The module-level tables FLUFF_WORDS and       *)
(* CONDITION_TEMPLATES are only read.                                       *)

Callers == {"c1", "c2"}

\* the calls a caller makes: the goods of DescriptionInputs listed for
\* parts/repair on eBay, and example scenario 1 at its price and at price 0
ConcurrentCalls ==
    { [op |-> "build_listing_payload", input |-> i] :
        i \in {x \in DescriptionInputs :
                 /\ x.platform = "eBay" /\ x.condition = "For parts/repair"
                 /\ x.include_parts_repair_note /\ x.use_condition_template
                 /\ x.category # "" /\ x.brand # ""} }
    \cup
    { [op |-> "calc_profit",
       input |-> [sale_price |-> price, cogs |-> 25 * Dollar, ebay_fee_pct |-> 1325,
                  processing_pct |-> 290, processing_fixed |-> 30 * Cent,
                  shipping_cost |-> 970 * Cent, packaging_cost |-> 150 * Cent]] :
        price \in {7999 * Cent, 0} }

\* the frame of a call that has executed no statement yet
NewFrame == [returned |-> FALSE, pc |-> "start"]

\* the frame of a call that has returned v
DoneFrame(v) == [returned |-> TRUE, pc |-> "done", value |-> v]

\* frame_of with the locals kept in one place for all the calls at the same
\* statement
frame_of_shared(c) == output[CHOOSE d \in Callers : output[d].pc = output[c].pc]

\* the frame in which the call of caller c finds its locals: its own
frame_of(c) == output[c]

InitConcurrent ==
    /\ \E calls \in [Callers -> ConcurrentCalls] :
          /\ op = [c \in Callers |-> calls[c].op]
          /\ input = [c \in Callers |-> calls[c].input]
    /\ output = [c \in Callers |-> NewFrame]
    /\ NoSession

\* caller c, its call having returned, makes another call
Invoke(c) ==
    /\ output[c].pc = "done"
    /\ \E call \in ConcurrentCalls :
          /\ op' = [op EXCEPT ![c] = call.op]
          /\ input' = [input EXCEPT ![c] = call.input]
    /\ output' = [output EXCEPT ![c] = NewFrame]
    /\ UNCHANGED <<session_state, files>>

\* build_listing_payload, the features and defects lists
ListingLists(c) ==
    /\ op[c] = "build_listing_payload"
    /\ output[c].pc = "start"
    /\ output' = [output EXCEPT ![c] =
          Bind(nonblank_stripped(splitlines(input[c].defects_lines)), LAMBDA defects0 :
            [returned |-> FALSE, pc |-> "lists",
             features |-> nonblank_stripped(splitlines(input[c].features_lines)),
             defects |->
                IF input[c].use_condition_template
                   /\ input[c].condition \in DOMAIN CONDITION_TEMPLATES
                   /\ ~Contains(defects0, CONDITION_TEMPLATES[input[c].condition])
                THEN Append(defects0, CONDITION_TEMPLATES[input[c].condition])
                ELSE defects0])]
    /\ UNCHANGED <<op, input, session_state, files>>

\* build_listing_payload, the title variants and the chosen title
ListingTitles(c) ==
    /\ op[c] = "build_listing_payload"
    /\ output[c].pc = "lists"
    /\ output' = [output EXCEPT ![c] =
          Bind(build_title_variants(input[c].platform, input[c].brand, input[c].item,
                                    input[c].model, input[c].condition,
                                    input[c].features_lines, 6), LAMBDA title_variants :
            [returned |-> FALSE, pc |-> "titles",
             features |-> frame_of(c).features,
             defects |-> frame_of(c).defects,
             title_variants |-> title_variants,
             chosen_title |-> IF title_variants # <<>> THEN title_variants[1][2]
                              ELSE "Item for sale"])]
    /\ UNCHANGED <<op, input, session_state, files>>

\* build_listing_payload, the parts/repair note, the description and the return
ListingReturn(c) ==
    /\ op[c] = "build_listing_payload"
    /\ output[c].pc = "titles"
    /\ output' = [output EXCEPT ![c] =
          Bind(frame_of(c), LAMBDA frame :
          Bind(IF input[c].include_parts_repair_note
                  /\ input[c].condition = "For parts/repair"
               THEN PARTS_REPAIR_NOTE ELSE "", LAMBDA parts_repair_note :
            DoneFrame(
              [platform |-> input[c].platform,
               title |-> frame.chosen_title,
               title_variants |-> frame.title_variants,
               desc |-> platform_description(
                            input[c].platform, frame.chosen_title, input[c].condition,
                            input[c].category, input[c].qty, frame.features,
                            frame.defects, input[c].seller_city, input[c].pickup_line,
                            input[c].shipping_line, input[c].handling_time,
                            input[c].returns_line, parts_repair_note),
               features |-> frame.features,
               defects |-> frame.defects,
               parts_repair_note |-> parts_repair_note])))]
    /\ UNCHANGED <<op, input, session_state, files>>

\* calc_profit, the three fee amounts
ProfitFees(c) ==
    /\ op[c] = "calc_profit"
    /\ output[c].pc = "start"
    /\ output' = [output EXCEPT ![c] =
          LET ebay_fee == (input[c].sale_price \div Cent) * input[c].ebay_fee_pct
              processing_fee == (input[c].sale_price \div Cent) * input[c].processing_pct
                                + input[c].processing_fixed
          IN [returned |-> FALSE, pc |-> "fees",
              ebay_fee |-> ebay_fee,
              processing_fee |-> processing_fee,
              total_fees |-> ebay_fee + processing_fee]]
    /\ UNCHANGED <<op, input, session_state, files>>

\* calc_profit, the cost, the profit, the margin and the return
ProfitReturn(c) ==
    /\ op[c] = "calc_profit"
    /\ output[c].pc = "fees"
    /\ output' = [output EXCEPT ![c] =
          LET frame == frame_of(c)
              total_cost == input[c].cogs + input[c].shipping_cost
                            + input[c].packaging_cost + frame.total_fees
              profit == input[c].sale_price - total_cost
          IN DoneFrame(
               [ebay_fee |-> frame.ebay_fee,
                processing_fee |-> frame.processing_fee,
                total_fees |-> frame.total_fees,
                total_cost |-> total_cost,
                profit |-> profit,
                margin_pct |-> IF input[c].sale_price > 0
                               THEN profit \div (input[c].sale_price \div Cent)
                               ELSE 0])]
    /\ UNCHANGED <<op, input, session_state, files>>

NextConcurrent ==
    \E c \in Callers :
        \/ Invoke(c)
        \/ ListingLists(c) \/ ListingTitles(c) \/ ListingReturn(c)
        \/ ProfitFees(c) \/ ProfitReturn(c)

SpecConcurrent == InitConcurrent /\ [][NextConcurrent]_vars

-----------------------------------------------------------------------------
(* The Streamlit app: one browser session.  session_state is the session's  *)
(* st.session_state, a function from the keys present to their values, and  *)
(* files is the data directory, a function from the names of the files that *)
(* exist to their contents (time stamps are left out).  input holds what    *)
(* reaches the script from outside session_state: the ADMIN_PIN environment *)
(* variable, the src query parameter, and the texts in the widgets without  *)
(* a key (the PIN box, the owner's App name box).  output holds the page    *)
(* the last run of the script rendered.  Every event of the user, an edit   *)
(* of a widget or a click on a button, runs the script from the top.        *)

\* st.session_state.get(k, default)
get(ss, k, default) == IF k \in DOMAIN ss THEN ss[k] ELSE default

\* st.session_state[k] = v
put(ss, k, v) == (k :> v) @@ ss

\* st.session_state.pop(k, None) for every k in keys
_reset_keys(ss, keys) == [k \in DOMAIN ss \ keys |-> ss[k]]

DEFAULT_CONFIG == [app_name |-> "Resale Listing Builder"]

DEFAULT_STATS ==
    [sessions |-> 0, tiktok_sessions |-> 0, profit_checks |-> 0,
     listings_generated |-> 0, emails_captured |-> 0, save_pro_clicks |-> 0,
     sessions_by_source |-> [tiktok |-> 0, pinterest |-> 0, instagram |-> 0,
                             facebook |-> 0, direct |-> 0, other |-> 0]]

\* the stats file is written by save_stats only, so that when it exists it
\* holds every key
load_stats(fs) == get(fs, "stats.json", DEFAULT_STATS)

save_stats(fs, stats) == put(fs, "stats.json", stats)

bump_stat(fs, key, n) == save_stats(fs, [load_stats(fs) EXCEPT ![key] = @ + n])

\* the traffic source of get_query_context, from the src query parameter
traffic_source(src) ==
    IF src = "" THEN "direct"
    ELSE IF src \in {"tt", "tik", "tiktokapp"} THEN "tiktok"
    ELSE src

source_bucket(s) ==
    IF s = "tiktok" THEN "tiktok"
    ELSE IF s = "pinterest" THEN "pinterest"
    ELSE IF s \in {"ig", "instagram"} THEN "instagram"
    ELSE IF s \in {"fb", "facebook"} THEN "facebook"
    ELSE IF s \in {"direct", ""} THEN "direct"
    ELSE "other"

\* the session start block, once per session: bump_stat("sessions", 1), then
\* the bucket of the source is counted in the stats loaded anew
session_start(ss, fs, src) ==
    IF "session_bumped" \in DOMAIN ss
    THEN [session_state |-> ss, files |-> fs]
    ELSE Bind(load_stats(bump_stat(fs, "sessions", 1)), LAMBDA stats :
        [session_state |-> put(ss, "session_bumped", TRUE),
         files |-> save_stats(fs,
             [stats EXCEPT
                 !.sessions_by_source[source_bucket(traffic_source(src))] = @ + 1,
                 !.tiktok_sessions = IF traffic_source(src) = "tiktok" THEN @ + 1 ELSE @])])

\* the Owner Mode gate without the two tests for an empty text
is_owner_unguarded(env) == env.pin_input = strip(env.ADMIN_PIN)

\* the Owner Mode gate
is_owner(env) ==
    Bind(strip(env.ADMIN_PIN), LAMBDA ADMIN_PIN :
        ADMIN_PIN # "" /\ env.pin_input # "" /\ env.pin_input = ADMIN_PIN)

\* the keys reset_listing_builder resets
LB_KEYS ==
    {"lb_platform", "lb_brand", "lb_item", "lb_model", "lb_condition", "lb_category",
     "lb_qty", "lb_features", "lb_defects", "lb_use_condition_template",
     "lb_include_parts_note", "lb_seller_city", "lb_pickup_line", "lb_shipping_line",
     "lb_handling_time", "lb_returns_line", "lb_title_pick"}

\* the keys reset_flip_checker resets
FC_KEYS ==
    {"fc_preset", "fc_sale_price", "fc_cogs", "fc_packaging_cost", "fc_shipping_method",
     "fc_weight", "fc_manual_shipping", "fc_shipping_cost", "fc_platform_fee_pct",
     "fc_processing_pct", "fc_processing_fixed"}

\* reset_listing_builder without the pop of last_listing
reset_listing_builder_keeps_pinned(ss) == _reset_keys(ss, LB_KEYS \cup {"live_listing"})

reset_listing_builder(ss) == _reset_keys(ss, LB_KEYS \cup {"last_listing", "live_listing"})

reset_flip_checker(ss) == _reset_keys(ss, FC_KEYS \cup {"last_profit"})

\* the widgets of the Listing Builder tab that are always rendered, with the
\* value each stores under its key when the key is not in session_state
LB_WIDGETS ==
    [lb_platform |-> "eBay", lb_brand |-> "", lb_item |-> "", lb_model |-> "",
     lb_condition |-> "New", lb_category |-> "", lb_qty |-> 1, lb_features |-> "",
     lb_defects |-> "", lb_use_condition_template |-> TRUE,
     lb_include_parts_note |-> TRUE, lb_seller_city |-> "Jacksonville, FL",
     lb_pickup_line |-> "Porch pickup / meetup",
     lb_shipping_line |-> "Ships within the US",
     lb_handling_time |-> "Same or next business day",
     lb_returns_line |-> "No returns (ask questions before buying)"]

\* the same for the Flip Checker tab, with the preset left at "eBay (typical)"
FC_WIDGETS ==
    [fc_preset |-> "eBay (typical)", fc_sale_price |-> 7999 * Cent,
     fc_cogs |-> 25 * Dollar, fc_packaging_cost |-> 150 * Cent,
     fc_shipping_method |-> "Ground (est.)", fc_weight |-> 200,
     fc_manual_shipping |-> FALSE, fc_platform_fee_pct |-> 1325,
     fc_processing_pct |-> 290, fc_processing_fixed |-> 30 * Cent]

maybe_build_live_preview(ss) ==
    IF _clean_token(get(ss, "lb_item", "")) = "" /\ _clean_token(get(ss, "lb_brand", "")) = ""
    THEN _reset_keys(ss, {"live_listing"})
    ELSE put(ss, "live_listing",
             build_listing_payload(
                 get(ss, "lb_platform", "eBay"), get(ss, "lb_brand", ""),
                 get(ss, "lb_item", ""), get(ss, "lb_model", ""),
                 get(ss, "lb_condition", "Used - Good"), get(ss, "lb_category", ""),
                 IF get(ss, "lb_qty", 1) = 0 THEN 1 ELSE get(ss, "lb_qty", 1),
                 get(ss, "lb_features", ""), get(ss, "lb_defects", ""),
                 get(ss, "lb_seller_city", "Jacksonville, FL"),
                 get(ss, "lb_pickup_line", "Porch pickup / meetup"),
                 get(ss, "lb_shipping_line", "Ships within the US"),
                 get(ss, "lb_handling_time", "Same or next business day"),
                 get(ss, "lb_returns_line", "No returns (ask questions before buying)"),
                 get(ss, "lb_include_parts_note", TRUE),
                 get(ss, "lb_use_condition_template", TRUE)))

\* generate_listing counting the click whether or not there is a payload
generate_listing_always_counts(ss0, fs) ==
    Bind(IF "live_listing" \in DOMAIN ss0 THEN ss0 ELSE maybe_build_live_preview(ss0),
         LAMBDA ss :
            [session_state |-> IF "live_listing" \in DOMAIN ss
                               THEN put(ss, "last_listing", ss["live_listing"]) ELSE ss,
             files |-> bump_stat(fs, "listings_generated", 1),
             warning |-> "live_listing" \notin DOMAIN ss])

\* the handler of the button Generate listing text
generate_listing(ss0, fs) ==
    Bind(IF "live_listing" \in DOMAIN ss0 THEN ss0 ELSE maybe_build_live_preview(ss0),
         LAMBDA ss :
            IF "live_listing" \in DOMAIN ss
            THEN [session_state |-> put(ss, "last_listing", ss["live_listing"]),
                  files |-> bump_stat(fs, "listings_generated", 1),
                  warning |-> FALSE]
            ELSE [session_state |-> ss, files |-> fs, warning |-> TRUE])

\* the output panel showing the payload: the options of the title selectbox,
\* the title picked and the description
shown_listing(ss, payload) ==
    Bind([i \in 1..Len(payload.title_variants) |->
             payload.title_variants[i][1] \o " - " \o payload.title_variants[i][2]],
         LAMBDA display :
    Bind(IF \E i \in 1..Len(display) : display[i] = get(ss, "lb_title_pick", "")
         THEN get(ss, "lb_title_pick", "") ELSE display[1], LAMBDA picked :
    Bind(payload.title_variants[
             CHOOSE i \in 1..Len(display) :
                 display[i] = picked /\ \A j \in 1..(i - 1) : display[j] # picked][2],
         LAMBDA chosen_title :
        [session_state |-> put(ss, "lb_title_pick", picked),
         panel |-> [shown |-> TRUE,
                    platform |-> payload.platform,
                    title |-> chosen_title,
                    condition |-> get(ss, "lb_condition", "Used - Good"),
                    desc |-> platform_description(
                        payload.platform, chosen_title,
                        get(ss, "lb_condition", "Used - Good"),
                        get(ss, "lb_category", ""),
                        IF get(ss, "lb_qty", 1) = 0 THEN 1 ELSE get(ss, "lb_qty", 1),
                        payload.features, payload.defects,
                        get(ss, "lb_seller_city", "Jacksonville, FL"),
                        get(ss, "lb_pickup_line", "Porch pickup / meetup"),
                        get(ss, "lb_shipping_line", "Ships within the US"),
                        get(ss, "lb_handling_time", "Same or next business day"),
                        get(ss, "lb_returns_line", "No returns (ask questions before buying)"),
                        payload.parts_repair_note)]])))

\* the output panel: last_listing if there is one, else live_listing, else
\* the hint; the title selectbox is rendered with a payload only, and the key
\* of a widget that is not rendered leaves session_state
output_panel(ss) ==
    IF "last_listing" \in DOMAIN ss THEN shown_listing(ss, ss["last_listing"])
    ELSE IF "live_listing" \in DOMAIN ss THEN shown_listing(ss, ss["live_listing"])
    ELSE [session_state |-> _reset_keys(ss, {"lb_title_pick"}), panel |-> [shown |-> FALSE]]

\* the widgets of the Flip Checker tab: the Shipping cost input is rendered
\* under the manual toggle only
flip_widgets(ss0) ==
    Bind(ss0 @@ FC_WIDGETS, LAMBDA ss :
        IF ss["fc_manual_shipping"] THEN ss @@ ("fc_shipping_cost" :> 800 * Cent)
        ELSE _reset_keys(ss, {"fc_shipping_cost"}))

\* the handler of the button Calculate profit
calculate_profit(ss, fs) ==
    Bind(IF ss["fc_manual_shipping"] THEN ss["fc_shipping_cost"]
         ELSE shipping_estimate(ss["fc_shipping_method"], ss["fc_weight"]),
         LAMBDA shipping_cost :
    Bind(calc_profit(ss["fc_sale_price"], ss["fc_cogs"], ss["fc_platform_fee_pct"],
                     ss["fc_processing_pct"], ss["fc_processing_fixed"],
                     shipping_cost, ss["fc_packaging_cost"]), LAMBDA result :
    Bind(flip_score(result.profit, result.margin_pct, ss["fc_sale_price"]), LAMBDA score :
        [session_state |->
            put(ss, "last_profit",
                [score |-> score, badge |-> flip_badge(score),
                 shipping_cost |-> shipping_cost,
                 packaging_cost |-> ss["fc_packaging_cost"],
                 cogs |-> ss["fc_cogs"], sale_price |-> ss["fc_sale_price"]] @@ result),
         files |-> bump_stat(fs, "profit_checks", 1)])))

\* the owner tools the sidebar renders
owner_tools(env, fs) ==
    IF is_owner(env)
    THEN {"Save settings", "Reset defaults", "Upload logo", "Download stats.json"}
         \cup (IF "waitlist.csv" \in DOMAIN fs THEN {"Download waitlist.csv"} ELSE {})
    ELSE {}

\* one run of the script on the event that caused it ("" for an edit or a
\* first visit): the session start block, the sidebar, the Listing Builder
\* tab and the Flip Checker tab.  st.rerun() abandons the run and starts the
\* next one, which has no event.
RECURSIVE script(_, _, _, _)
script(ss0, fs0, env, event) ==
    Bind(session_start(ss0 @@ ("compact_mode" :> TRUE), fs0, env.src), LAMBDA st :
    IF is_owner(env) /\ event = "Save settings"
    THEN script(st.session_state,
                put(st.files, "config.json", [app_name |-> env.app_name]), env, "")
    ELSE IF is_owner(env) /\ event = "Reset defaults"
    THEN script(st.session_state, put(st.files, "config.json", DEFAULT_CONFIG), env, "")
    ELSE
    Bind(IF is_owner(env) /\ event = "Upload logo"
         THEN put(st.files, "logo_override.png", "PNG") ELSE st.files, LAMBDA fs :
    Bind(maybe_build_live_preview(st.session_state @@ LB_WIDGETS), LAMBDA ss1 :
    IF event = "lb_reset_btn"
    THEN script(reset_listing_builder(ss1), fs, env, "")
    ELSE
    Bind(IF event = "lb_generate_btn" THEN generate_listing(ss1, fs)
         ELSE [session_state |-> ss1, files |-> fs, warning |-> FALSE], LAMBDA gen :
    Bind(output_panel(gen.session_state), LAMBDA out :
    Bind(flip_widgets(out.session_state), LAMBDA ss2 :
    IF event = "fc_reset_btn"
    THEN script(reset_flip_checker(ss2), gen.files, env, "")
    ELSE
    Bind(IF event = "fc_calc_btn" THEN calculate_profit(ss2, gen.files)
         ELSE [session_state |-> ss2, files |-> gen.files], LAMBDA calc :
        [session_state |-> calc.session_state,
         files |-> calc.files,
         page |-> [is_owner |-> is_owner(env),
                   owner_tools |-> owner_tools(env, calc.files),
                   panel |-> out.panel,
                   warning |-> gen.warning]])))))))

MaxClicks == 2

\* what reaches a session from outside: no PIN set, no query parameter
SessionEnvs == {[ADMIN_PIN |-> "", pin_input |-> "", src |-> "", app_name |-> ""]}

\* the flip forms of a session: prices from 0 upwards, costs, fee rates, and
\* shipping estimated or entered by hand
FlipForms ==
    [fc_sale_price : {k * 50 * Dollar : k \in 0..MaxPriceSteps} \cup {10 * Dollar, 7999 * Cent},
     fc_cogs : {0, 25 * Dollar, 300 * Dollar},
     fc_platform_fee_pct : {0, 1325, 3000},
     fc_processing_pct : {0, 290},
     fc_processing_fixed : {0, 30 * Cent},
     fc_packaging_cost : {0, 150 * Cent},
     fc_manual_shipping : BOOLEAN,
     fc_shipping_cost : {0, 800 * Cent}]

InitSession ==
    /\ op = "app.py"
    /\ input \in SessionEnvs
    /\ output = NoOutput
    /\ session_state = <<>>
    /\ files = <<>>

\* a session with the ADMIN_PIN variable unset or empty, blank, set, and set
\* with spaces around it
InitOwner ==
    /\ op = "app.py"
    /\ input \in {[ADMIN_PIN |-> pin, pin_input |-> "", src |-> "", app_name |-> ""] :
                    pin \in {"", "  ", "1234", " 1234 "}}
    /\ output = NoOutput
    /\ session_state = <<>>
    /\ files = <<>>

\* a session that has filled in the flip form
InitFlipCheck ==
    /\ op = "app.py"
    /\ input \in SessionEnvs
    /\ \E form \in FlipForms :
          \E r \in {script(form, <<>>, input, "")} :
              /\ session_state = r.session_state
              /\ files = r.files
              /\ output = Return(r.page)

\* the script runs on the event and renders the page
Run(ss, env, event) ==
    \E r \in {script(ss, files, env, event)} :
        /\ session_state' = r.session_state
        /\ files' = r.files
        /\ output' = Return(r.page)

\* the first visit of the session
Start ==
    /\ op = "app.py"
    /\ output = NoOutput
    /\ Run(session_state, input, "")
    /\ UNCHANGED <<op, input>>

\* an edit of the listing form: the Item box or the Condition selectbox
EditListing ==
    /\ op = "app.py"
    /\ output.returned
    /\ \E e \in {<<"lb_item", "">>, <<"lb_item", "MacBook Pro">>,
                 <<"lb_condition", "New">>, <<"lb_condition", "For parts/repair">>} :
          /\ session_state[e[1]] # e[2]
          /\ Run(put(session_state, e[1], e[2]), input, "")
    /\ UNCHANGED <<op, input>>

\* an edit of the flip form: a sale price that pays or one that does not
EditFlip ==
    /\ op = "app.py"
    /\ output.returned
    /\ \E e \in {<<"fc_sale_price", 7999 * Cent>>, <<"fc_sale_price", 10 * Dollar>>} :
          /\ session_state[e[1]] # e[2]
          /\ Run(put(session_state, e[1], e[2]), input, "")
    /\ UNCHANGED <<op, input>>

ClickGenerate ==
    /\ op = "app.py"
    /\ output.returned
    /\ load_stats(files).listings_generated < MaxClicks
    /\ Run(session_state, input, "lb_generate_btn")
    /\ UNCHANGED <<op, input>>

ClickResetListing ==
    /\ op = "app.py"
    /\ output.returned
    /\ Run(session_state, input, "lb_reset_btn")
    /\ UNCHANGED <<op, input>>

ClickCalculate ==
    /\ op = "app.py"
    /\ output.returned
    /\ load_stats(files).profit_checks < MaxClicks
    /\ Run(session_state, input, "fc_calc_btn")
    /\ UNCHANGED <<op, input>>

ClickResetFlip ==
    /\ op = "app.py"
    /\ output.returned
    /\ Run(session_state, input, "fc_reset_btn")
    /\ UNCHANGED <<op, input>>

\* a text typed into the PIN box
EnterPin ==
    /\ op = "app.py"
    /\ output.returned
    /\ \E pin \in {"", "1234", " 1234 ", "0000"} :
          /\ input' = [input EXCEPT !.pin_input = pin]
          /\ Run(session_state, input', "")
    /\ UNCHANGED op

ToggleCompact ==
    /\ op = "app.py"
    /\ output.returned
    /\ Run(put(session_state, "compact_mode", ~session_state["compact_mode"]), input, "")
    /\ UNCHANGED <<op, input>>

\* a click on one of the owner's buttons, which the sidebar renders in owner
\* mode only; Save settings saves the name typed into the App name box
ClickOwnerTool ==
    /\ op = "app.py"
    /\ output.returned
    /\ \E tool \in output.value.owner_tools \cap {"Save settings", "Reset defaults", "Upload logo"} :
          /\ input' = [input EXCEPT !.app_name = IF tool = "Save settings" THEN "My Shop" ELSE @]
          /\ Run(session_state, input', tool)
    /\ UNCHANGED op

NextSession ==
    \/ Start
    \/ EditListing
    \/ EditFlip
    \/ ClickGenerate
    \/ ClickResetListing
    \/ ClickCalculate
    \/ ClickResetFlip

NextOwner == Start \/ EnterPin \/ ToggleCompact \/ ClickOwnerTool

SpecSession == InitSession /\ [][NextSession]_vars

SpecOwner == InitOwner /\ [][NextOwner]_vars

SpecFlipCheck == InitFlipCheck /\ [][ClickCalculate]_vars

-----------------------------------------------------------------------------
(* Concurrent sessions: the script of every session runs in a thread of its *)
(* own, and the threads share the data directory.  Here session_state holds *)
(* one value per session: the position pc of the session's running script   *)
(* in the statements that read or write the stats file, the stats dict it   *)
(* has loaded, and the counter it is bumping.  One step is one read or one  *)
(* write of the file; a write of the whole file is taken as atomic.  The    *)
(* events file counts the events log_event has appended, by kind.           *)

Sessions == {"s1", "s2"}

\* the counter each button bumps and the event it logs
Buttons == [listings_generated |-> "listing_generated", profit_checks |-> "profit_checked"]

NoEvents == [session_started |-> 0, listing_generated |-> 0, profit_checked |-> 0]

\* log_event, as the count of the events appended by kind
log_event(fs, event) ==
    put(fs, "events.jsonl", [get(fs, "events.jsonl", NoEvents) EXCEPT ![event] = @ + 1])

InitStats ==
    /\ op = "app.py"
    /\ input = [s \in Sessions |-> [src |-> ""]]
    /\ output = NoOutput
    /\ session_state = [s \in Sessions |-> [pc |-> "new", stats |-> DEFAULT_STATS, key |-> ""]]
    /\ files = <<>>

\* bump_stat("sessions", 1) of the session start block: stats = load_stats()
StartLoad(s) ==
    /\ session_state[s].pc = "new"
    /\ session_state' = [session_state EXCEPT ![s].pc = "sessions_loaded",
                                              ![s].stats = load_stats(files)]
    /\ UNCHANGED <<op, input, output, files>>

\* stats["sessions"] = ... + 1; save_stats(stats)
StartSave(s) ==
    /\ session_state[s].pc = "sessions_loaded"
    /\ files' = save_stats(files, [session_state[s].stats EXCEPT !.sessions = @ + 1])
    /\ session_state' = [session_state EXCEPT ![s].pc = "sessions_saved"]
    /\ UNCHANGED <<op, input, output>>

\* stats = load_stats() of the session start block
SourceLoad(s) ==
    /\ session_state[s].pc = "sessions_saved"
    /\ session_state' = [session_state EXCEPT ![s].pc = "source_loaded",
                                              ![s].stats = load_stats(files)]
    /\ UNCHANGED <<op, input, output, files>>

\* the bucket of the source is counted, the stats are saved, the event is
\* logged and session_bumped is set
SourceSave(s) ==
    /\ session_state[s].pc = "source_loaded"
    /\ files' = log_event(
           save_stats(files,
               [session_state[s].stats EXCEPT
                   !.sessions_by_source[source_bucket(traffic_source(input[s].src))] = @ + 1,
                   !.tiktok_sessions = IF traffic_source(input[s].src) = "tiktok"
                                       THEN @ + 1 ELSE @]),
           "session_started")
    /\ session_state' = [session_state EXCEPT ![s].pc = "session_bumped"]
    /\ UNCHANGED <<op, input, output>>

\* a click on Generate (with a payload) or on Calculate profit:
\* bump_stat(key, 1) loads the stats
ClickLoad(s) ==
    /\ session_state[s].pc = "session_bumped"
    /\ \E key \in DOMAIN Buttons :
          /\ get(files, "events.jsonl", NoEvents)[Buttons[key]] < MaxClicks
          /\ session_state' = [session_state EXCEPT ![s].pc = "bump_loaded",
                                                    ![s].stats = load_stats(files),
                                                    ![s].key = key]
    /\ UNCHANGED <<op, input, output, files>>

\* stats[key] = ... + 1; save_stats(stats); log_event(...)
ClickSave(s) ==
    /\ session_state[s].pc = "bump_loaded"
    /\ files' = log_event(
           save_stats(files, [session_state[s].stats EXCEPT ![session_state[s].key] = @ + 1]),
           Buttons[session_state[s].key])
    /\ session_state' = [session_state EXCEPT ![s].pc = "session_bumped"]
    /\ UNCHANGED <<op, input, output>>

NextStats ==
    \E s \in Sessions :
        \/ StartLoad(s)
        \/ StartSave(s)
        \/ SourceLoad(s)
        \/ SourceSave(s)
        \/ ClickLoad(s)
        \/ ClickSave(s)

SpecStats == InitStats /\ [][NextStats]_vars

-----------------------------------------------------------------------------
(* The waitlist: calls of append_waitlist, one after the other.  The file   *)
(* waitlist.csv is its rows after the header line, each the text the call   *)
(* wrote; the time stamp is a fixed text.                                   *)

normalize_email(email) == lower(strip(email))

\* re.match(r"^[^@\s]+@[^@\s]+\.[^@\s]+$", email) on the normalized email: no
\* whitespace, one "@" that is not the first character, and after it a "."
\* that has a character on both sides
is_valid_email(email0) ==
    Bind(normalize_email(email0), LAMBDA email :
        /\ \A i \in 1..Len(email) : ~IsSpace(Ch(email, i))
        /\ Cardinality({i \in 1..Len(email) : Ch(email, i) = "@"}) = 1
        /\ \E a \in 2..Len(email) :
              /\ Ch(email, a) = "@"
              /\ \E dot \in (a + 2)..(Len(email) - 1) : Ch(email, dot) = ".")

\* parts = line.split(","): whether len(parts) >= 2, and parts[1]
second_field(line) ==
    Bind({i \in 1..Len(line) : Ch(line, i) = ","}, LAMBDA commas :
        IF commas = {} THEN [found |-> FALSE, text |-> ""]
        ELSE Bind(CHOOSE c \in commas : \A d \in commas : c <= d, LAMBDA c1 :
             Bind({d \in commas : d > c1}, LAMBDA rest :
                [found |-> TRUE,
                 text |-> SubSeq(line, c1 + 1,
                                 IF rest = {} THEN Len(line)
                                 ELSE (CHOOSE c \in rest : \A d \in rest : c <= d) - 1)])))

\* the loop over the existing rows
already_listed(rows, email) ==
    \E i \in 1..Len(rows) :
        second_field(rows[i]).found /\ normalize_email(second_field(rows[i]).text) = email

\* source.replace(",", " ").strip()
safe_text(s) == strip(Flat([i \in 1..Len(s) |-> IF Ch(s, i) = "," THEN " " ELSE Ch(s, i)]))

\* the row f"{ts},{email},{safe_source},{safe_note}"
waitlist_row(email, source, note) ==
    "2026-01-01T00:00:00" \o "," \o email \o "," \o safe_text(source) \o "," \o safe_text(note)

append_waitlist(fs, email0, source, note) ==
    Bind(normalize_email(email0), LAMBDA email :
        IF ~is_valid_email(email)
        THEN [files |-> fs,
              value |-> <<FALSE, "That does not look like a valid email.">>]
        ELSE Bind(get(fs, "waitlist.csv", <<>>), LAMBDA rows :
            IF already_listed(rows, email)
            THEN [files |-> put(fs, "waitlist.csv", rows),
                  value |-> <<FALSE, "You are already on the list.">>]
            ELSE [files |-> log_event(
                               bump_stat(put(fs, "waitlist.csv",
                                             Append(rows, waitlist_row(email, source, note))),
                                         "emails_captured", 1),
                               "waitlist_joined"),
                  value |-> <<TRUE, "Added. You are on the waitlist.">>]))

MaxRows == 3

\* the texts typed into the Email box: valid ones, one of them in another
\* letter case with spaces around it and one with a comma in its local part,
\* and invalid ones
WaitlistEmails ==
    {"a@x.co", " A@X.co ", "c@y.org", "d@z.io", "a,b@x.co", "", "a@x", "a b@x.co",
     "a@@x.co", "@x.co"}

InitWaitlist ==
    /\ op = "append_waitlist"
    /\ input = [email |-> "", source |-> "direct", note |-> "main_footer"]
    /\ output = NoOutput
    /\ session_state = <<>>
    /\ files = <<>>

\* a click on Join waitlist with the text in the Email box
AppendWaitlist ==
    /\ op = "append_waitlist"
    /\ Len(get(files, "waitlist.csv", <<>>)) < MaxRows
    /\ \E email \in WaitlistEmails :
          /\ input' = [input EXCEPT !.email = email]
          /\ \E r \in {append_waitlist(files, email, input.source, input.note)} :
                /\ files' = r.files
                /\ output' = Return(r.value)
    /\ UNCHANGED <<op, session_state>>

SpecWaitlist == InitWaitlist /\ [][AppendWaitlist]_vars

-----------------------------------------------------------------------------
(* Properties of the listing builder *)

ListingReturned == op = "build_listing_payload" /\ Returned

\* a text field is blank: nothing but whitespace
Blank(s) == strip(s) = ""

\* the features text has no non-blank line
NoFeatureLines(f) == nonblank_stripped(splitlines(f)) = <<>>

\* C1: for every input of the listing builder the chosen title has at most 90
\* characters, and at most 80 when the platform is eBay
C1_TitleWithinLimit ==
    ListingReturned =>
        /\ Len(output.value.title) <= 90
        /\ input.platform = "eBay" => Len(output.value.title) <= 80

\* C1 witness: on eBay brand, item and model together exceed 80 characters and
\* the builder returned a title made of the leading parts that fit
C1_Witness ==
    /\ ListingReturned
    /\ input.platform = "eBay"
    /\ Len(join(<<input.brand, input.item, input.model>>)) > 80
    /\ output.value.title # "Item for sale"
    /\ Len(output.value.title) > 45
    /\ Len(output.value.title) <= 80

\* C8: with brand, item, model, condition and features all blank the builder
\* returns exactly one title variant, whose text is "Item for sale"
C8_AllBlankFallback ==
    (/\ ListingReturned
     /\ Blank(input.brand) /\ Blank(input.item) /\ Blank(input.model)
     /\ Blank(input.condition) /\ NoFeatureLines(input.features_lines))
    => /\ Len(output.value.title_variants) = 1
       /\ output.value.title_variants[1][2] = "Item for sale"

\* C8 witness: a call whose fields are all blank, the brand being whitespace,
\* has returned the fallback variant
C8_Witness ==
    /\ ListingReturned
    /\ input.brand = "  " /\ Blank(input.item) /\ Blank(input.model)
    /\ Blank(input.condition) /\ NoFeatureLines(input.features_lines)
    /\ output.value.title = "Item for sale"

FittedTexts ==
    LET cands == title_candidates(input.brand, input.item, input.model,
                                  input.condition, input.features_lines)
    IN [i \in 1..Len(cands) |->
          [label |-> cands[i][1],
           text |-> _clean_token(_fit_to_limit(
                        cands[i][2],
                        IF cands[i][1] = "short" THEN 60
                        ELSE IF cands[i][1] = "super short" THEN 45
                        ELSE IF lower(strip(input.platform)) = "ebay" THEN 80
                        ELSE 90))]]

\* candidate i is the first of the candidates whose text equals its own,
\* compared case-insensitively
FirstOfItsText(ft, i) == \A j \in 1..(i - 1) : lower(ft[j].text) # lower(ft[i].text)

\* C10: in the result of one call no two variants have the same text compared
\* case-insensitively, and of the candidates with equal text the one kept is
\* the first in generation order
C10_CaseInsensitiveUnique ==
    ListingReturned =>
        LET out == output.value.title_variants
            ft == FittedTexts
            kept == {i \in 1..Len(ft) : ft[i].text # "" /\ FirstOfItsText(ft, i)}
        IN /\ \A k, l \in 1..Len(out) : k # l => lower(out[k][2]) # lower(out[l][2])
           /\ kept # {} =>
                /\ Len(out) = Cardinality(kept)
                /\ \A k \in 1..Len(out) :
                     \E i \in kept :
                        /\ out[k] = <<ft[i].label, ft[i].text>>
                        /\ Cardinality({j \in kept : j <= i}) = k

\* C10 witness: two candidates of the call fit to texts that differ only in
\* case, and the call has returned
C10_Witness ==
    /\ ListingReturned
    /\ \E i, j \in 1..Len(FittedTexts) :
          /\ i < j
          /\ FittedTexts[i].text # FittedTexts[j].text
          /\ lower(FittedTexts[i].text) = lower(FittedTexts[j].text)
          /\ \E k \in 1..Len(output.value.title_variants) :
                output.value.title_variants[k][2] = FittedTexts[i].text

\* C11: for every input the list of title variants has at least 1 and at most
\* 6 entries, and every entry has a non-empty text
C11_VariantCount ==
    ListingReturned =>
        LET out == output.value.title_variants
        IN /\ 1 <= Len(out) /\ Len(out) <= 6
           /\ \A k \in 1..Len(out) : out[k][2] # ""

\* C11 witness: a call has returned five variants, one per candidate
C11_Witness ==
    /\ ListingReturned
    /\ Len(FittedTexts) = 5
    /\ Len(output.value.title_variants) = 5

\* example scenario 2
Example2(in) ==
    /\ in.platform = "eBay" /\ in.brand = "Apple" /\ in.item = "MacBook Pro"
    /\ in.model = "A1990" /\ in.condition = "Used - Good"
    /\ in.features_lines = "16GB RAM\n512GB SSD"

\* the non-empty parts brand, item, model of the call, normalised
BaseParts ==
    clean_parts(<<_strip_fluff(_clean_token(input.brand)),
                  _strip_fluff(_clean_token(input.item)),
                  _strip_fluff(_clean_token(input.model))>>)

\* the feature keywords of the call
Keywords == _keywords_from_features(input.features_lines, 2)

\* C12 as stated: the first variant is brand, item and model followed by at
\* most one feature keyword; for example scenario 2 it contains "Apple MacBook
\* Pro A1990" followed by at most one keyword and has at most 80 characters
C12_Original ==
    ListingReturned =>
        LET first == output.value.title_variants[1][2]
        IN /\ Example2(input) =>
                /\ first \in {"Apple MacBook Pro A1990",
                               "Apple MacBook Pro A1990 16GB RAM",
                               "Apple MacBook Pro A1990 512GB SSD"}
                /\ Len(first) <= 80
           /\ (BaseParts # <<>> /\ Len(join(BaseParts \o Keywords)) <= 80) =>
                \E n \in 0..Min(1, Len(Keywords)) :
                    first = join(BaseParts \o SubSeq(Keywords, 1, n))

\* C12 amended: the first variant is brand, item and model followed by at most
\* two feature keywords, both of them when the whole fits the limit; for
\* example scenario 2 it is "Apple MacBook Pro A1990 16GB RAM 512GB SSD", within
\* 80 characters
C12_FirstVariantKeywords ==
    ListingReturned =>
        LET first == output.value.title_variants[1][2]
            parts == BaseParts \o Keywords
        IN /\ Len(Keywords) <= 2
           /\ Example2(input) =>
                /\ first = "Apple MacBook Pro A1990 16GB RAM 512GB SSD"
                /\ Len(first) <= 80
           /\ (parts # <<>> /\ Len(join(parts)) <= 80) => first = join(parts)
           /\ (output.value.title_variants[1][1] = "eBay-fit" /\ first # "Item for sale") =>
                \E n \in 1..Len(parts) : first = join(SubSeq(parts, 1, n))

\* C12 witness: the call of example scenario 2 has returned a first variant
\* that carries both feature keywords
C12_Witness ==
    /\ ListingReturned /\ Example2(input)
    /\ Len(Keywords) = 2
    /\ output.value.title = "Apple MacBook Pro A1990 16GB RAM 512GB SSD"

\* the place of a label in the generation order
GenerationRank(label) ==
    CASE label = "eBay-fit" -> 1
      [] label = "feature-first" -> 2
      [] label = "short" -> 3
      [] label = "super short" -> 4
      [] label \in {"condition", "parts/repair"} -> 5
      [] OTHER -> 0

\* the text of the conditional variant whose last part is the given one
ConditionalText(last) ==
    _clean_token(_fit_to_limit(
        <<_strip_fluff(_clean_token(input.brand)), _strip_fluff(_clean_token(input.item)),
          _strip_fluff(_clean_token(input.model)), last>>,
        IF lower(strip(input.platform)) = "ebay" THEN 80 ELSE 90))

\* C22: the variants returned follow the generation order eBay-fit,
\* feature-first, short, super short, conditional; a feature-first variant is
\* returned only when a feature keyword exists; a conditional variant is built
\* from brand, item, model and the condition when the condition is not empty
\* and not "For parts/repair", from brand, item, model and "For Parts/Repair"
\* when it is "For parts/repair", and there is none when the condition is
\* empty; the chosen title is the first variant returned
C22_GenerationOrder ==
    ListingReturned =>
        LET out == output.value.title_variants
            cond == _clean_token(input.condition)
        IN /\ \A k \in 1..Len(out) : GenerationRank(out[k][1]) >= 1
           /\ \A k \in 1..(Len(out) - 1) :
                 GenerationRank(out[k][1]) < GenerationRank(out[k + 1][1])
           /\ \A k \in 1..Len(out) :
                 /\ out[k][1] = "feature-first" => Keywords # <<>>
                 /\ out[k][1] = "condition" =>
                       /\ cond # "" /\ cond # "For parts/repair"
                       /\ out[k][2] = ConditionalText(cond)
                 /\ out[k][1] = "parts/repair" =>
                       /\ cond = "For parts/repair"
                       /\ out[k][2] = ConditionalText("For Parts/Repair")
           /\ output.value.title = out[1][2]

\* all five variants returned, the feature-first one second and the
\* conditional one, built from the condition, last
C22_Witness ==
    /\ ListingReturned
    /\ Len(output.value.title_variants) = 5
    /\ output.value.title_variants[2][1] = "feature-first"
    /\ output.value.title_variants[5][1] = "condition"
    /\ output.value.title_variants[5][2] = ConditionalText(input.condition)

\* the non-blank lines of the defects argument, stripped
InputDefects == nonblank_stripped(splitlines(input.defects_lines))

\* the toggle is on and the condition is a key of CONDITION_TEMPLATES
TemplateApplies ==
    input.use_condition_template /\ input.condition \in DOMAIN CONDITION_TEMPLATES

\* how often the line occurs in the list
Occurrences(seq, x) == Cardinality({i \in 1..Len(seq) : seq[i] = x})

\* what C23 says of the defects and features lists, but for how often the
\* sentence appears
TemplateAugmentation ==
    /\ TemplateApplies =>
          output.value.defects =
              IF Occurrences(InputDefects, CONDITION_TEMPLATES[input.condition]) > 0
              THEN InputDefects
              ELSE Append(InputDefects, CONDITION_TEMPLATES[input.condition])
    /\ ~TemplateApplies => output.value.defects = InputDefects
    /\ output.value.features = nonblank_stripped(splitlines(input.features_lines))

\* C23 as stated: with the toggle on and a condition of the table the defects
\* returned are the input's followed by the condition's sentence, or the
\* input's when the sentence is among them; otherwise they are the input's
\* non-blank lines; the sentence appears at most once; features are unchanged
C23_Original ==
    ListingReturned =>
        /\ TemplateAugmentation
        /\ TemplateApplies =>
              Occurrences(output.value.defects, CONDITION_TEMPLATES[input.condition]) <= 1

\* C23 amended: as above, but the sentence appears once when the input defects
\* hold it at most once, and as often as the input defects hold it when they
\* repeat it: it is added at most once and never removed
C23_TemplateAugmentation ==
    ListingReturned =>
        /\ TemplateAugmentation
        /\ TemplateApplies =>
              LET n == Occurrences(InputDefects, CONDITION_TEMPLATES[input.condition])
              IN  Occurrences(output.value.defects, CONDITION_TEMPLATES[input.condition])
                      = IF n = 0 THEN 1 ELSE n

\* the defects typed in hold the sentence of the condition twice, and the call
\* has returned them as they are
C23_Witness ==
    /\ ListingReturned
    /\ TemplateApplies
    /\ Occurrences(InputDefects, CONDITION_TEMPLATES[input.condition]) = 2
    /\ output.value.defects = InputDefects

\* the variants of the returned listing that carry the label
VariantsLabelled(label) ==
    {output.value.title_variants[k][2] :
        k \in {j \in 1..Len(output.value.title_variants) :
                 output.value.title_variants[j][1] = label}}

\* C20: every title variant respects the limit of its label: 60 characters
\* for "short", 45 for "super short", and for every other label 80 when the
\* platform, trimmed and compared case-insensitively, is eBay and 90 otherwise
C20_VariantWithinLabelLimit ==
    ListingReturned =>
        \A k \in 1..Len(output.value.title_variants) :
            LET label == output.value.title_variants[k][1]
                text == output.value.title_variants[k][2]
            IN Len(text) <= (IF label = "short" THEN 60
                             ELSE IF label = "super short" THEN 45
                             ELSE IF lower(strip(input.platform)) = "ebay" THEN 80
                             ELSE 90)

\* C20 witness: on the platform " EBAY " the parts/repair candidate of 87
\* characters was returned cut to its leading parts within 80, the short
\* variant lost its model to fit 60 and the super short one is the brand of 45
C20_Witness ==
    /\ ListingReturned
    /\ input.platform = " EBAY "
    /\ Len(join(<<input.brand, input.item, input.model, "For Parts/Repair">>)) > 80
    /\ \E t \in VariantsLabelled("parts/repair") : Len(t) > 60 /\ Len(t) <= 80
    /\ \E t \in VariantsLabelled("short") : Len(t) > 45 /\ Len(t) <= 60
    /\ \E t \in VariantsLabelled("super short") : Len(t) = 45

\* text s contains the text sub
HasSubstring(s, sub) ==
    \E i \in 1..(Len(s) - Len(sub) + 1) : SubSeq(s, i, i + Len(sub) - 1) = sub

\* the description carries a sold-as-is disclaimer, in any letter case
SoldAsIs(desc) == HasSubstring(lower(desc), "sold as-is")

\* the four platforms that have a description template of their own
FourPlatforms == {"ebay", "facebook marketplace", "mercari", "offerup"}

OnFourPlatforms == lower(strip(input.platform)) \in FourPlatforms

\* C13 as stated: with condition "For parts/repair" on any of the four
\* platforms the description contains a sold-as-is disclaimer when
\* include_parts_repair_note is true and contains none when it is false,
\* whatever the other fields and toggles are
C13_DisclaimerFollowsFlag ==
    (ListingReturned /\ OnFourPlatforms /\ input.condition = "For parts/repair")
    => (input.include_parts_repair_note <=> SoldAsIs(output.value.desc))

\* the description renders a field: its value when it has one, a placeholder
\* dash after the field's label when it is blank
RendersField(desc, v) ==
    IF v # "" THEN HasSubstring(desc, v)
    ELSE \E dash \in {EM_DASH, "-"} :
            HasSubstring(desc, ": " \o dash) \/ HasSubstring(desc, ":** " \o dash)

\* C14 as stated: on each of the four platforms the description renders the
\* same field set: title, condition, quantity, category, and the seller footer
\* with location, pickup, shipping, handling time and returns, a blank field as
\* a placeholder dash
C14_SameFieldSet ==
    (ListingReturned /\ OnFourPlatforms) =>
        LET desc == output.value.desc
        IN /\ HasSubstring(desc, output.value.title)
           /\ HasSubstring(desc, input.condition)
           /\ HasSubstring(desc, ": " \o ToString(input.qty))
              \/ HasSubstring(desc, ":** " \o ToString(input.qty))
           /\ RendersField(desc, input.category)
           /\ RendersField(desc, input.seller_city)
           /\ RendersField(desc, input.pickup_line)
           /\ RendersField(desc, input.shipping_line)
           /\ RendersField(desc, input.handling_time)
           /\ RendersField(desc, input.returns_line)

-----------------------------------------------------------------------------
(* Properties of the profit calculator *)

ProfitReturned == op = "calc_profit" /\ Returned

\* an amount in micro-dollars rounded to whole cents
RoundCents(x) == (x + Cent \div 2) \div Cent

\* a margin in hundredths of a percent rounded to tenths of a percent
RoundTenths(x) == (x + 5) \div 10

Example1 ==
    [sale_price |-> 7999 * Cent, cogs |-> 25 * Dollar, ebay_fee_pct |-> 1325,
     processing_pct |-> 290, processing_fixed |-> 30 * Cent,
     shipping_cost |-> 970 * Cent, packaging_cost |-> 150 * Cent]

\* C2: calc_profit returns platformFee = salePrice * platformFeePct / 100,
\* processingFee = salePrice * processingPct / 100 + processingFixed,
\* totalFees = platformFee + processingFee, totalCost = cogs + shippingCost +
\* packagingCost + totalFees and profit = salePrice - totalCost; for example
\* scenario 1 these are, in cents, 10.60, 2.62, 13.22, 49.42 and 30.57, with
\* margin 38.2 %
C2_FeeModel ==
    ProfitReturned =>
        LET r == output.value
            cents == input.sale_price \div Cent
        IN /\ r.ebay_fee = cents * input.ebay_fee_pct
           /\ r.processing_fee = cents * input.processing_pct + input.processing_fixed
           /\ r.total_fees = r.ebay_fee + r.processing_fee
           /\ r.total_cost = input.cogs + input.shipping_cost + input.packaging_cost
                             + r.total_fees
           /\ r.profit = input.sale_price - r.total_cost
           /\ input = Example1 =>
                /\ RoundCents(r.ebay_fee) = 1060
                /\ RoundCents(r.processing_fee) = 262
                /\ RoundCents(r.total_fees) = 1322
                /\ RoundCents(r.total_cost) = 4942
                /\ RoundCents(r.profit) = 3057
                /\ RoundTenths(r.margin_pct) = 382

\* C2 witness: calc_profit has returned for example scenario 1
C2_Witness == ProfitReturned /\ input = Example1 /\ RoundCents(output.value.profit) = 3057

\* C6: with salePrice = 0 calc_profit returns marginPct = 0, whatever the
\* other inputs are
C6_ZeroPriceMargin ==
    (ProfitReturned /\ input.sale_price = 0) => output.value.margin_pct = 0

\* C6 witness: calc_profit has returned for a sale price of 0 and a loss
C6_Witness ==
    ProfitReturned /\ input.sale_price = 0 /\ output.value.profit < 0

\* max(0, x)
NonNegative(x) == IF x < 0 THEN 0 ELSE x

\* C7 as stated: every input of calc_profit is clamped to >= 0 before it
\* enters the formula, so a negative input gives the result of the value 0
C7_InputsClamped ==
    ProfitReturned =>
        LET cents == NonNegative(input.sale_price) \div Cent
            fees == cents * NonNegative(input.ebay_fee_pct)
                    + cents * NonNegative(input.processing_pct)
                    + NonNegative(input.processing_fixed)
            cost == NonNegative(input.cogs) + NonNegative(input.shipping_cost)
                    + NonNegative(input.packaging_cost) + fees
        IN /\ output.value.total_fees = fees
           /\ output.value.total_cost = cost
           /\ output.value.profit = NonNegative(input.sale_price) - cost

\* the profit calc_profit returns for the call's inputs with the sale price
\* replaced by price
ProfitAtPrice(price) ==
    calc_profit(price, input.cogs, input.ebay_fee_pct, input.processing_pct,
                input.processing_fixed, input.shipping_cost, input.packaging_cost).profit

\* the call's sale price raised by one cent, by one dollar and by fifty dollars
HigherPrices == {input.sale_price + k * Cent : k \in {1, 100, 5000}}

\* C15: with the fee percentages together below 100 %, raising the sale price
\* while every other input stays fixed strictly raises the profit
C15_ProfitMonotonic ==
    (ProfitReturned /\ input.ebay_fee_pct + input.processing_pct < 10000)
    => \A price \in HigherPrices : ProfitAtPrice(price) > output.value.profit

\* C15 witness: calc_profit has returned for example scenario 1, whose fees
\* take 16.15 % of the price, and one cent more on the price gives more profit
C15_Witness ==
    /\ ProfitReturned /\ input = Example1
    /\ input.ebay_fee_pct + input.processing_pct = 1615
    /\ ProfitAtPrice(input.sale_price + Cent) > output.value.profit
    /\ ProfitAtPrice(input.sale_price + Cent) < output.value.profit + Cent

-----------------------------------------------------------------------------
(* Properties of _keywords_from_features *)

KeywordsReturned == op = "_keywords_from_features" /\ output.returned

\* the first 12 non-blank lines of the argument, normalized
NormalizedLines ==
    LET lines == nonblank_stripped(splitlines(input.features_lines))
    IN  [i \in 1..Min(12, Len(lines)) |-> _short_featureize(_strip_fluff(lines[i]))]

\* the positions of the normalized lines of 2 to 26 characters
KeptPositions ==
    {i \in DOMAIN NormalizedLines :
        2 <= Len(NormalizedLines[i]) /\ Len(NormalizedLines[i]) <= 26}

\* C21: the keywords returned are the first max_k (at most 2) of the normalized
\* lines of 2 to 26 characters among the first 12 non-blank lines, in the order
\* of the lines; a line outside the length range is passed over and does not
\* count towards max_k
C21_KeywordsAreFirstKept ==
    KeywordsReturned =>
        /\ Len(output.value) <= 2
        /\ Len(output.value) = Min(input.max_k, Cardinality(KeptPositions))
        /\ \A j \in 1..Len(output.value) :
              \E i \in KeptPositions :
                  /\ Cardinality({g \in KeptPositions : g < i}) = j - 1
                  /\ output.value[j] = NormalizedLines[i]

\* two keywords returned although a line before the second was passed over, and
\* a line after the twelfth left out
C21_Witness ==
    /\ KeywordsReturned
    /\ Len(nonblank_stripped(splitlines(input.features_lines))) > 12
    /\ Cardinality(KeptPositions) = 1
    /\ output.value = <<"late one">>

-----------------------------------------------------------------------------
(* Properties of _fit_to_limit *)

FitReturned == op = "_fit_to_limit" /\ Returned

\* the non-empty parts of the call, and the join of the first n of them
FitParts == clean_parts(input.parts)

JoinedPrefix(n) == _clean_token(join(SubSeq(FitParts, 1, n)))

\* C19 as stated: when the joined text exceeds the limit, _fit_to_limit drops
\* trailing parts one at a time until the join fits, and when the first part
\* alone exceeds the limit it returns that part cut to the limit with trailing
\* whitespace stripped: a non-empty text of at most limit characters
C19_HardTruncate ==
    (FitReturned /\ FitParts # <<>>
     /\ Len(_strip_fluff(JoinedPrefix(Len(FitParts)))) > input.limit)
    => IF \E n \in 1..Len(FitParts) : Len(JoinedPrefix(n)) <= input.limit
       THEN \E n \in 1..Len(FitParts) :
              /\ Len(JoinedPrefix(n)) <= input.limit
              /\ n < Len(FitParts) => Len(JoinedPrefix(n + 1)) > input.limit
              /\ output.value = JoinedPrefix(n)
       ELSE /\ output.value = rstrip(Take(FitParts[1], input.limit))
            /\ output.value # ""
            /\ Len(output.value) <= input.limit

-----------------------------------------------------------------------------
(* Properties of both core functions *)

ListingFields ==
    {"platform", "title", "title_variants", "desc", "features", "defects",
     "parts_repair_note"}

ProfitFields ==
    {"ebay_fee", "processing_fee", "total_fees", "total_cost", "profit", "margin_pct"}

\* C18: for every input, blank texts, an unrecognized platform or condition,
\* negative amounts and the price 0 included, a call of the listing builder or
\* of the profit calculator can take its step, and what it returns is a
\* complete output record, never an error
C18_NoErrorOutcome ==
    /\ (op = "build_listing_payload" /\ ~Returned) => ENABLED BuildListingPayload
    /\ (op = "calc_profit" /\ ~Returned) => ENABLED CalcProfit
    /\ ListingReturned =>
          /\ DOMAIN output.value = ListingFields
          /\ output.value.title # ""
          /\ output.value.title_variants # <<>>
          /\ output.value.desc # ""
    /\ ProfitReturned =>
          /\ DOMAIN output.value = ProfitFields
          /\ \A f \in ProfitFields : output.value[f] \in Int

\* C18 witness: the listing builder has returned a record for a platform and
\* a condition it does not know, with every other text blank
C18_Witness ==
    /\ ListingReturned
    /\ input.platform = "Etsy" /\ input.condition = "Broken"
    /\ Blank(input.brand) /\ Blank(input.item) /\ Blank(input.model)
    /\ input.category = "" /\ input.seller_city = ""
    /\ ~input.use_condition_template
    /\ DOMAIN output.value = ListingFields
    /\ output.value.desc = "Broken\n\nCondition: Broken"

-----------------------------------------------------------------------------
(* Properties of concurrent invocations *)

\* what the function called by caller c returns for the caller's input when
\* it runs alone
AloneResult(c) ==
    IF op[c] = "build_listing_payload"
    THEN build_listing_payload(
             input[c].platform, input[c].brand, input[c].item, input[c].model,
             input[c].condition, input[c].category, input[c].qty,
             input[c].features_lines, input[c].defects_lines, input[c].seller_city,
             input[c].pickup_line, input[c].shipping_line, input[c].handling_time,
             input[c].returns_line, input[c].include_parts_repair_note,
             input[c].use_condition_template)
    ELSE calc_profit(input[c].sale_price, input[c].cogs, input[c].ebay_fee_pct,
                     input[c].processing_pct, input[c].processing_fixed,
                     input[c].shipping_cost, input[c].packaging_cost)

\* C17: under every interleaving of the callers' calls, each call of the
\* listing builder and of the profit calculator returns what it returns for
\* its own input when it runs alone, and a running call's frame holds the
\* locals of that call only
C17_CallsIndependent ==
    \A c \in Callers :
        /\ output[c].returned => output[c].value = AloneResult(c)
        /\ (~output[c].returned /\ output[c].pc = "titles") =>
              output[c].title_variants = AloneResult(c).title_variants
        /\ (~output[c].returned /\ output[c].pc = "fees") =>
              output[c].total_fees = AloneResult(c).total_fees

\* C17 witness: two callers ran the same function on different inputs; one
\* has returned its own result while the other is in the middle of its call
C17_Witness ==
    \E c, d \in Callers :
        /\ op[c] = op[d] /\ input[c] # input[d]
        /\ output[c].returned /\ output[c].value = AloneResult(c)
        /\ output[d].pc \in {"titles", "fees"}
        /\ AloneResult(c) # AloneResult(d)

-----------------------------------------------------------------------------
(* Properties of the shipping estimate *)

ShippingReturned == op = "shipping_estimate" /\ Returned

\* base dollars plus rate dollars per pound, for a weight in hundredths of a
\* pound: the amounts in cents, the result in micro-dollars
Estimate(base, rate, w) == base * Cent + rate * w * 100

\* C16: the shipping estimate is 6.50 + 1.10 w for Ground, 9.50 + 1.50 w for
\* Priority, exactly 0.00 for Local pickup whatever the weight, and
\* 7.50 + 1.20 w for any other method, w being the weight floored at 0
C16_ShippingEstimate ==
    ShippingReturned =>
        LET w == NonNegative(input.weight_lb)
        IN output.value =
             CASE input.method = "Ground (est.)" -> Estimate(650, 110, w)
               [] input.method = "Priority (est.)" -> Estimate(950, 150, w)
               [] input.method = "Local pickup" -> 0
               [] OTHER -> Estimate(750, 120, w)

\* C16 witness: an estimate has been returned for a negative weight by a
\* method with a rate per pound, and it is the method's base amount
C16_Witness ==
    /\ ShippingReturned
    /\ input.method = "Priority (est.)" /\ input.weight_lb < 0
    /\ output.value = 950 * Cent

-----------------------------------------------------------------------------
(* Properties of the flip score and its badge *)

ScoreReturned == op = "flip_score" /\ Returned

BadgeReturned == op = "flip_badge" /\ Returned

\* C3: the flip score is within [1.0, 10.0] for every profit, margin and price
C3_ScoreInRange ==
    ScoreReturned => output.value >= 100 /\ output.value <= 1000

\* C3 witness: every bonus applies, so that the sum 15.0 is clamped to 10.0
C3_Witness ==
    /\ ScoreReturned
    /\ input.profit >= 50 * Dollar /\ input.margin_pct >= 6000
    /\ output.value = 1000

\* the sum of the adjustments the claim lists, each gated on its own
ClaimedAdjustmentSum(profit, margin, price) ==
    (IF profit >= 25 * Dollar THEN 200 ELSE 0)
    + (IF profit >= 50 * Dollar THEN 300 ELSE 0)
    + (IF margin >= 4000 THEN 200 ELSE 0)
    + (IF margin >= 6000 THEN 300 ELSE 0)
    - (IF profit < 10 * Dollar THEN 300 ELSE 0)
    - (IF margin < 2000 THEN 300 ELSE 0)
    - (IF price > 200 * Dollar /\ profit < 20 * Dollar THEN 200 ELSE 0)

\* x clamped to [1.0, 10.0]
Clamped(x) == IF x < 100 THEN 100 ELSE IF x > 1000 THEN 1000 ELSE x

\* C4: the flip score is the baseline 5.0 plus the sum of the seven gated
\* adjustments, clamped to [1.0, 10.0] and rounded to one decimal, and applying
\* the adjustments in any other order gives the same score
C4_ScoreFormula ==
    ScoreReturned =>
        /\ output.value
             = Clamped(500 + ClaimedAdjustmentSum(input.profit, input.margin_pct,
                                                  input.sale_price))
        /\ output.value % 10 = 0
        /\ \A order \in Permutations(1..7) :
              clamp_score(round1(add_in_order(
                  500,
                  flip_adjustments(input.profit, input.margin_pct, input.sale_price),
                  order, 7))) = output.value

\* C4 witness: a bonus and a penalty both apply and the score is not clamped
C4_Witness ==
    /\ ScoreReturned
    /\ input.profit >= 25 * Dollar /\ input.margin_pct < 2000
    /\ output.value = 400

BadgeLabels == {"Bad Flip", "Risky", "Good Flip", "Great Flip"}

-----------------------------------------------------------------------------
(* Properties of the app session *)

PageRendered == op = "app.py" /\ output.returned

\* the listing form holds a brand or an item, trimmed
FormHasItem ==
    strip(session_state["lb_item"]) # "" \/ strip(session_state["lb_brand"]) # ""

\* the payload of the listing form as it stands
FormPayload ==
    build_listing_payload(
        session_state["lb_platform"], session_state["lb_brand"], session_state["lb_item"],
        session_state["lb_model"], session_state["lb_condition"],
        session_state["lb_category"], session_state["lb_qty"],
        session_state["lb_features"], session_state["lb_defects"],
        session_state["lb_seller_city"], session_state["lb_pickup_line"],
        session_state["lb_shipping_line"], session_state["lb_handling_time"],
        session_state["lb_returns_line"], session_state["lb_include_parts_note"],
        session_state["lb_use_condition_template"])

\* what a click on Generate does, and what an edit does not
GenerateCounts ==
    /\ (ClickGenerate /\ FormHasItem) =>
          /\ files'["stats.json"] =
                [files["stats.json"] EXCEPT !.listings_generated = @ + 1]
          /\ "last_listing" \in DOMAIN session_state'
          /\ session_state'["last_listing"] = FormPayload
    /\ (ClickGenerate /\ ~FormHasItem) =>
          /\ files' = files
          /\ ("last_listing" \in DOMAIN session_state')
                <=> ("last_listing" \in DOMAIN session_state)
          /\ "last_listing" \in DOMAIN session_state =>
                session_state'["last_listing"] = session_state["last_listing"]
    /\ (EditListing \/ EditFlip) => files' = files

\* C24: a click on Generate adds exactly 1 to listings_generated and pins the
\* payload of the form as last_listing when the form holds a brand or an item
\* (after trimming), and otherwise changes neither the stats nor last_listing;
\* a run that only builds the live preview changes no counter
C24_GenerateCounts == [][GenerateCounts]_vars

\* two clicks on Generate counted, the second payload pinned
C24_Witness ==
    /\ PageRendered
    /\ files["stats.json"].listings_generated = 2
    /\ FormHasItem
    /\ session_state["last_listing"] = FormPayload
    /\ session_state["lb_condition"] = "For parts/repair"

\* the result of the last click on Calculate profit
ProfitChecked == PageRendered /\ "last_profit" \in DOMAIN session_state

\* C25: whenever the profit calc_profit computed is 0 or less, the score
\* flip_score gave it (with the margin calc_profit derived) is 1.0 and the badge
\* is Bad Flip; an unprofitable deal is never rated Risky, Good or Great
C25_UnprofitableIsBadFlip ==
    (ProfitChecked /\ session_state["last_profit"].profit <= 0) =>
        /\ session_state["last_profit"].score = 100
        /\ session_state["last_profit"].badge = "Bad Flip"

\* a deal at a price above 0 that loses money has been rated
C25_Witness ==
    /\ ProfitChecked
    /\ session_state["last_profit"].sale_price > 200 * Dollar
    /\ session_state["last_profit"].profit < 0
    /\ session_state["last_profit"].margin_pct < 0
    /\ session_state["last_profit"].badge = "Bad Flip"

\* the output panel shows a listing
ListingShown == PageRendered /\ output.value.panel.shown

\* C26: the description in the output panel comes from one snapshot of the
\* form: when it holds the parts/repair note the condition it shows is "For
\* parts/repair", and when it holds the template sentence of a condition the
\* condition it shows is that condition
C26_ConsistentSnapshot ==
    ListingShown =>
        /\ HasSubstring(output.value.panel.desc, PARTS_REPAIR_NOTE) =>
              output.value.panel.condition = "For parts/repair"
        /\ \A c \in DOMAIN CONDITION_TEMPLATES :
              HasSubstring(output.value.panel.desc, CONDITION_TEMPLATES[c]) =>
                  output.value.panel.condition = c

\* the keys of the widgets of the Listing Builder tab, and of the Flip Checker
\* tab
ListingWidgetKeys == DOMAIN LB_WIDGETS \cup {"lb_title_pick"}

FlipWidgetKeys == DOMAIN FC_WIDGETS \cup {"fc_shipping_cost"}

\* the session state is the same before and after the step at the keys
SameAt(keys) ==
    \A k \in keys :
        /\ (k \in DOMAIN session_state') <=> (k \in DOMAIN session_state)
        /\ k \in DOMAIN session_state => session_state'[k] = session_state[k]

\* what the two Reset buttons do and leave alone
ResetsAreSeparate ==
    /\ ClickResetListing =>
          /\ DOMAIN reset_listing_builder(session_state)
                \cap (ListingWidgetKeys \cup {"last_listing", "live_listing"}) = {}
          /\ DOMAIN session_state' \cap {"last_listing", "live_listing", "lb_title_pick"} = {}
          /\ \A k \in DOMAIN LB_WIDGETS : session_state'[k] = LB_WIDGETS[k]
          /\ ~output'.value.panel.shown
          /\ SameAt(FlipWidgetKeys \cup {"last_profit"})
          /\ files' = files
    /\ ClickResetFlip =>
          /\ DOMAIN reset_flip_checker(session_state)
                \cap (FlipWidgetKeys \cup {"last_profit"}) = {}
          /\ "last_profit" \notin DOMAIN session_state'
          /\ \A k \in DOMAIN FC_WIDGETS : session_state'[k] = FC_WIDGETS[k]
          /\ SameAt(ListingWidgetKeys \cup {"last_listing", "live_listing"})
          /\ output'.value.panel = output.value.panel
          /\ files' = files

\* C29: reset_listing_builder removes every key of the listing widgets,
\* last_listing and live_listing, so that the run that follows renders the
\* widgets with their first values and shows no payload, and it leaves the keys
\* of the flip widgets, last_profit and the stats file as they were;
\* reset_flip_checker removes the keys of the flip widgets and last_profit and
\* leaves the listing keys, both payloads and the stats file as they were
C29_ResetsAreSeparate == [][ResetsAreSeparate]_vars

\* after a Generate and a Calculate the listing has been reset: nothing is
\* shown although a listing was counted, and the flip form and its result are
\* still there
C29_Witness ==
    /\ PageRendered
    /\ files["stats.json"].listings_generated = 1
    /\ ~output.value.panel.shown
    /\ "last_listing" \notin DOMAIN session_state
    /\ session_state["fc_sale_price"] = 10 * Dollar
    /\ "last_profit" \in DOMAIN session_state

\* C30: a run is in owner mode only if ADMIN_PIN (the environment variable,
\* trimmed) is not empty and the text in the PIN box equals it; without owner
\* mode the page renders no owner tool; and while ADMIN_PIN is unset or empty
\* no PIN gives owner mode, no config is saved and no logo is uploaded
C30_OwnerNeedsPin ==
    PageRendered =>
        /\ output.value.is_owner =>
              /\ strip(input.ADMIN_PIN) # ""
              /\ input.pin_input = strip(input.ADMIN_PIN)
        /\ ~output.value.is_owner => output.value.owner_tools = {}
        /\ strip(input.ADMIN_PIN) = "" =>
              /\ ~output.value.is_owner
              /\ DOMAIN files \cap {"config.json", "logo_override.png"} = {}

\* with ADMIN_PIN set, with spaces around it, the owner has entered it and
\* saved the settings in owner mode
C30_Witness ==
    /\ PageRendered
    /\ input.ADMIN_PIN = " 1234 "
    /\ input.pin_input = "1234"
    /\ output.value.is_owner
    /\ "Save settings" \in output.value.owner_tools
    /\ "config.json" \in DOMAIN files

-----------------------------------------------------------------------------
(* Properties of concurrent sessions *)

\* no session is between a read and a write of the stats file
AllSessionsIdle == \A s \in Sessions : session_state[s].pc = "session_bumped"

\* C27: for any interleaving of session starts and clicks of concurrent
\* sessions no update of a counter is lost: once every session is idle the
\* sessions counter is the number of sessions that ran the session start
\* block, and each other counter is the number of bump_stat calls made for it
C27_NoLostUpdate ==
    (op = "app.py" /\ AllSessionsIdle) =>
        /\ files["stats.json"].sessions = files["events.jsonl"].session_started
        /\ files["stats.json"].sessions_by_source.direct
              = files["events.jsonl"].session_started
        /\ \A key \in DOMAIN Buttons :
              files["stats.json"][key] = files["events.jsonl"][Buttons[key]]

-----------------------------------------------------------------------------
(* Properties of the waitlist *)

\* the rows of the waitlist that were written for the normalized email
RowsOf(email) ==
    {i \in 1..Len(get(files, "waitlist.csv", <<>>)) :
        files["waitlist.csv"][i] = waitlist_row(email, input.source, input.note)}

\* C28: after any sequence of append_waitlist calls the waitlist holds each
\* normalized email at most once, and emails_captured counts its rows; a call
\* with an invalid email has returned False
C28_EachEmailOnce ==
    op = "append_waitlist" =>
        /\ \A email \in WaitlistEmails :
              Cardinality(RowsOf(normalize_email(email))) <= 1
        /\ "stats.json" \in DOMAIN files =>
              files["stats.json"].emails_captured = Len(files["waitlist.csv"])
        /\ (output.returned /\ ~is_valid_email(input.email)) => ~output.value[1]

=============================================================================
